---- MODULE Spec2Model ----
(***************************************************************************)
(* asm2wasm: the parser's operand classification and the assembly lifter   *)
(* (AssemblyLifter::liftToLLVM and its helpers) as a state machine over    *)
(* the lifted module.                                                      *)
(*                                                                         *)
(* A std::string whose characters the code inspects (an operand token) is  *)
(* a sequence of one-character strings; a name used as a map key is the    *)
(* TLA+ string obtained by joining those characters.                       *)
(***************************************************************************)
EXTENDS Integers, Sequences, FiniteSets, TLC

\* ------------------------------------------------------------------------
\* Bounds of the model
\* ------------------------------------------------------------------------
\* longest control-flow program (in lines) drawn by Init
MaxLen == 4

\* ------------------------------------------------------------------------
\* std::string helpers
\* ------------------------------------------------------------------------
\* int is 32 bits wide
IntMax == 2147483647
IntMin == (0 - 2147483647) - 1

Digits == {"0", "1", "2", "3", "4", "5", "6", "7", "8", "9"}

DigitVal(c) ==
  CASE c = "0" -> 0 [] c = "1" -> 1 [] c = "2" -> 2 [] c = "3" -> 3
    [] c = "4" -> 4 [] c = "5" -> 5 [] c = "6" -> 6 [] c = "7" -> 7
    [] c = "8" -> 8 [] c = "9" -> 9

RECURSIVE Join(_)
Join(cs) == IF cs = <<>> THEN "" ELSE cs[1] \o Join(Tail(cs))

\* std::string::find(c): position (1-based) of the first c, 0 for npos
RECURSIVE FindFrom(_, _, _)
FindFrom(s, c, p) ==
  IF p > Len(s) THEN 0
  ELSE IF s[p] = c THEN p ELSE FindFrom(s, c, p + 1)

Find(s, c) == FindFrom(s, c, 1)

\* s.substr(p) and s.substr(p, n) with 1-based p
SubstrFrom(s, p) == SubSeq(s, p, Len(s))
Substr(s, p, n) == SubSeq(s, p, IF p + n - 1 > Len(s) THEN Len(s) ELSE p + n - 1)

\* the predicate both all_of calls use
IsNumChar(c) == c \in Digits \/ c = "-" \/ c = "+"

AllNumChars(s) == \A k \in 1..Len(s) : IsNumChar(s[k])

RECURSIVE DigitRun(_, _)
DigitRun(s, p) ==
  IF p <= Len(s) /\ s[p] \in Digits THEN 1 + DigitRun(s, p + 1) ELSE 0

\* the digits s[p..q] accumulated as a negative number (so that the magnitude
\* 2^31 is representable); 1 stands for "does not fit in an int"
RECURSIVE NegDigitsValue(_, _, _, _)
NegDigitsValue(s, p, q, acc) ==
  IF p > q THEN acc
  ELSE LET d == DigitVal(s[p])
       IN IF acc < 0 - 214748364 \/ (acc = 0 - 214748364 /\ d > 8) THEN 1
          ELSE NegDigitsValue(s, p + 1, q, acc * 10 - d)

\* std::stoi: optional sign, then the longest run of digits; trailing
\* characters are ignored; no digit throws std::invalid_argument, a value
\* outside int throws std::out_of_range.
stoi(s) ==
  LET sg  == Len(s) >= 1 /\ (s[1] = "+" \/ s[1] = "-")
      p   == IF sg THEN 2 ELSE 1
      n   == DigitRun(s, p)
      neg == NegDigitsValue(s, p, p + n - 1, 0)
      minus == sg /\ s[1] = "-"
  IN IF n = 0 \/ neg = 1 \/ (~minus /\ neg = IntMin)
       THEN [ok |-> FALSE, v |-> 0]
       ELSE [ok |-> TRUE, v |-> IF minus THEN neg ELSE 0 - neg]

\* ------------------------------------------------------------------------
\* AssemblyParser
\* ------------------------------------------------------------------------
RECURSIVE FirstNotSpace(_, _)
FirstNotSpace(s, p) ==
  IF p > Len(s) THEN 0
  ELSE IF s[p] # " " THEN p ELSE FirstNotSpace(s, p + 1)

RECURSIVE LastNotSpace(_, _)
LastNotSpace(s, p) ==
  IF p < 1 THEN 0
  ELSE IF s[p] # " " THEN p ELSE LastNotSpace(s, p - 1)

trim(s) ==
  LET first == FirstNotSpace(s, 1)
  IN IF first = 0 THEN <<>> ELSE SubSeq(s, first, LastNotSpace(s, Len(s)))

Operand(t, v) == [type |-> t, value |-> v]

parseOperand(operand) ==
  LET t0      == trim(operand)
      trimmed == IF t0 # <<>> /\ t0[Len(t0)] = ","
                   THEN SubSeq(t0, 1, Len(t0) - 1) ELSE t0
  IN IF Len(trimmed) >= 2 /\ trimmed[1] = "%"
       THEN Operand("REGISTER", trimmed)
     ELSE IF Len(trimmed) >= 3 /\ trimmed[1] = "(" /\ trimmed[Len(trimmed)] = ")"
       THEN Operand("MEMORY", trimmed)
     ELSE IF AllNumChars(trimmed)
       THEN Operand("IMMEDIATE", trimmed)
     ELSE Operand("LABEL", trimmed)

\* mnemonics are given in upper case here; ::toupper is not modelled
parseInstructionType(upper) ==
  CASE upper = "ADD" -> "ADD"   [] upper = "SUB" -> "SUB"
    [] upper = "MUL" -> "MUL"   [] upper = "DIV" -> "DIV"
    [] upper = "MOV" -> "MOV"   [] upper = "CMP" -> "CMP"
    [] upper = "JMP" -> "JMP"   [] upper = "JE" -> "JE"
    [] upper = "JZ" -> "JE"     [] upper = "JNE" -> "JNE"
    [] upper = "JNZ" -> "JNE"   [] upper = "JL" -> "JL"
    [] upper = "JG" -> "JG"     [] upper = "JLE" -> "JLE"
    [] upper = "JGE" -> "JGE"   [] upper = "CALL" -> "CALL"
    [] upper = "RET" -> "RET"   [] upper = "PUSH" -> "PUSH"
    [] upper = "POP" -> "POP"   [] OTHER -> "UNKNOWN"

\* A tokenised source line: label is the first token without its ':' ("" when
\* the line has no label), rest the remaining tokens (mnemonic, operands).
Line(label, mnem, args) == [label |-> label, mnem |-> mnem, args |-> args]

\* parser state: [instructions, labels, err, ok]
parseLine(ps, line) ==
  LET type == parseInstructionType(line.mnem)
      ops  == [k \in 1..Len(line.args) |-> parseOperand(line.args[k])]
      labs == IF line.label # ""
                THEN [n \in DOMAIN ps.labels \cup {line.label} |->
                        IF n = line.label THEN Len(ps.instructions)
                        ELSE ps.labels[n]]
                ELSE ps.labels
  IN IF line.label # "" /\ line.mnem = ""
       THEN [ps EXCEPT !.labels = labs,
                       !.instructions = Append(@, [type |-> "LABEL", operands |-> <<>>,
                                                   label |-> line.label])]
     ELSE IF type = "UNKNOWN"
       THEN [ps EXCEPT !.labels = labs,
                       !.err = "Unknown instruction: " \o line.mnem,
                       !.ok = FALSE]
     ELSE [ps EXCEPT !.labels = labs,
                     !.instructions = Append(@, [type |-> type, operands |-> ops,
                                                 label |-> line.label])]

\* the getline loop of parseString; k is lineNumber
RECURSIVE parseLines(_, _, _)
parseLines(ps, lines, k) ==
  IF k > Len(lines) THEN ps
  ELSE LET p2 == parseLine(ps, lines[k])
       IN IF ~p2.ok
            THEN [p2 EXCEPT !.err = "Error at line " \o ToString(k) \o ": " \o p2.err]
            ELSE parseLines(p2, lines, k + 1)

parseString(lines) ==
  parseLines([instructions |-> <<>>, labels |-> <<>>, err |-> "", ok |-> TRUE],
             lines, 1)

\* ------------------------------------------------------------------------
\* The lifted module (llvm::Module) and the values the lifter handles
\* ------------------------------------------------------------------------
\* A value is a constant, the result of an instruction (by instruction id), a
\* basic block (function index n, block index m), a function (index n), or
\* the null pointer.
NullV        == [k |-> "null", n |-> 0, m |-> 0]
ConstV(n)    == [k |-> "const", n |-> n, m |-> 0]
ConstBoolV(n) == [k |-> "constbool", n |-> n, m |-> 0]
ConstPtrV(n) == [k |-> "constptr", n |-> n, m |-> 0]
PoisonV      == [k |-> "poison", n |-> 0, m |-> 0]
InstV(id)    == [k |-> "inst", n |-> id, m |-> 0]
BlockV(f, b) == [k |-> "block", n |-> f, m |-> b]
FuncV(f)     == [k |-> "func", n |-> f, m |-> 0]

IsConst(v) == v.k = "const"

Terminators == {"ret", "br", "condbr"}

\* the type of the value an instruction yields
TypeOfKind(kind) ==
  CASE kind \in {"alloca", "inttoptr"} -> "ptr"
    [] kind = "icmp" -> "i1"
    [] kind \in {"load", "binop", "zext", "call"} -> "i32"
    [] OTHER -> "void"

\* 32-bit two's complement arithmetic (APInt), computed on 16- and 8-bit limbs
\* so that no intermediate result leaves the 32-bit range
Lo16(a) == a % 65536
Hi16(a) == a \div 65536

Add32(a, b) ==
  LET lo == Lo16(a) + Lo16(b)
      hi == Hi16(a) + Hi16(b) + (lo \div 65536)
      hw == ((hi + 32768) % 65536) - 32768
  IN hw * 65536 + (lo % 65536)

Neg32(a) == IF a = IntMin THEN IntMin ELSE 0 - a

Sub32(a, b) == IF b = IntMin THEN Add32(Add32(a, IntMax), 1) ELSE Add32(a, 0 - b)

Limb(a, i) ==
  CASE i = 0 -> a % 256
    [] i = 1 -> (a \div 256) % 256
    [] i = 2 -> (a \div 65536) % 256
    [] i = 3 -> (a \div 16777216) % 256

Mul32(a, b) ==
  LET c0 == Limb(a, 0) * Limb(b, 0)
      c1 == Limb(a, 0) * Limb(b, 1) + Limb(a, 1) * Limb(b, 0) + (c0 \div 256)
      c2 == Limb(a, 0) * Limb(b, 2) + Limb(a, 1) * Limb(b, 1)
            + Limb(a, 2) * Limb(b, 0) + (c1 \div 256)
      c3 == Limb(a, 0) * Limb(b, 3) + Limb(a, 1) * Limb(b, 2)
            + Limb(a, 2) * Limb(b, 1) + Limb(a, 3) * Limb(b, 0) + (c2 \div 256)
      r3 == c3 % 256
  IN (IF r3 >= 128 THEN r3 - 256 ELSE r3) * 16777216
     + (c2 % 256) * 65536 + (c1 % 256) * 256 + (c0 % 256)

\* signed division truncating toward zero, for b > 0
TruncDivPos(a, b) ==
  LET q == a \div b
  IN IF a < 0 /\ a % b # 0 THEN q + 1 ELSE q

\* sdiv; the caller excludes b = 0 and IntMin / -1
SDiv32(a, b) ==
  IF b > 0 THEN TruncDivPos(a, b)
  ELSE IF b = IntMin THEN (IF a = IntMin THEN 1 ELSE 0)
  ELSE 0 - TruncDivPos(a, 0 - b)

\* ConstantFolder on two i32 constants
FoldBinOp(sub, a, b) ==
  CASE sub = "add" -> ConstV(Add32(a, b))
    [] sub = "sub" -> ConstV(Sub32(a, b))
    [] sub = "mul" -> ConstV(Mul32(a, b))
    [] sub = "sdiv" ->
         IF b = 0 \/ (a = IntMin /\ b = 0 - 1) THEN PoisonV
         ELSE ConstV(SDiv32(a, b))

EvalPred(pred, a, b) ==
  CASE pred = "eq"  -> a = b
    [] pred = "ne"  -> a # b
    [] pred = "slt" -> a < b
    [] pred = "sgt" -> a > b
    [] pred = "sle" -> a <= b
    [] pred = "sge" -> a >= b

BoolInt(c) == IF c THEN 1 ELSE 0

\* std::map assignment m[k] = v
MapPut(m, k, v) == [n \in DOMAIN m \cup {k} |-> IF n = k THEN v ELSE m[n]]

\* ------------------------------------------------------------------------
\* The lifter object s.  Fields:
\*   module, registers, blocks, functions, err (errorMessage_),
\*   ftc (fallthroughCounter_), ip (builder_'s insertion block, NullV if none),
\*   currentFunc, isFirstLabel (locals of liftToLLVM),
\*   nid (next instruction id), at (index of the instruction being lifted),
\*   exc ("none", or how the call was left: "throw" for a C++ exception,
\*   "crash" for a null dereference),
\*   v (the value returned by the helper that ran last), ok (the bool returned
\*   by the lift function that ran last), loc (the C++ locals that are
\*   live across helper calls, by name), openedNow (the loop body opened a
\*   function for the current label).
\* Every helper maps a lifter to a lifter and leaves it alone once exc is set.
\* ------------------------------------------------------------------------
Ret(s, v) == IF s.exc # "none" THEN s ELSE [s EXCEPT !.v = v]

\* a local variable receives the value just returned
Let(s, name) == [s EXCEPT !.loc = MapPut(@, name, s.v)]

Crash(s) == IF s.exc = "none" THEN [s EXCEPT !.exc = "crash", !.v = NullV] ELSE s
Throw(s) == IF s.exc = "none" THEN [s EXCEPT !.exc = "throw", !.v = NullV] ELSE s

SetErr(s, msg) == IF s.exc # "none" THEN s ELSE [s EXCEPT !.err = msg]
Fail(s, msg) == IF s.exc # "none" THEN s ELSE [s EXCEPT !.err = msg, !.ok = FALSE]
Ok(s) == IF s.exc # "none" THEN s ELSE [s EXCEPT !.ok = TRUE]

\* ValueSymbolTable::makeUniqueName: a name already taken in the function
\* gets the first number above LastUnique that makes it free
RECURSIVE makeUniqueName(_, _, _)
makeUniqueName(symtab, name, k) ==
  IF (name \o ToString(k)) \notin symtab THEN k
  ELSE makeUniqueName(symtab, name, k + 1)

\* Value::setName in function fn: the name the value gets ...
UniqueName(fn, name) ==
  IF name = "" \/ name \notin fn.symtab THEN name
  ELSE name \o ToString(makeUniqueName(fn.symtab, name, fn.lastUnique + 1))

\* ... and the function's symbol table after it
setName(fn, name) ==
  IF name = "" THEN fn
  ELSE IF name \notin fn.symtab THEN [fn EXCEPT !.symtab = @ \cup {name}]
  ELSE [fn EXCEPT !.symtab = @ \cup {UniqueName(fn, name)},
                  !.lastUnique = makeUniqueName(fn.symtab, name, fn.lastUnique + 1)]

\* name is the name asked for, uniq the name the value has in the module
Mk(s, kind, sub, name, x, y, z) ==
  [id |-> s.nid, kind |-> kind, sub |-> sub, name |-> name, uniq |-> name,
   x |-> x, y |-> y, z |-> z, at |-> s.at]

\* a local IRBuilder<>(block): appends to the end of that block
EmitAt(s, blk, kind, sub, name, x, y, z) ==
  IF s.exc # "none" THEN s
  ELSE [s EXCEPT !.module[blk.n] =
                   setName([s.module[blk.n] EXCEPT !.blocks[blk.m].ops =
                              Append(@, [Mk(s, kind, sub, name, x, y, z) EXCEPT
                                           !.uniq = UniqueName(s.module[blk.n], name)])],
                           name),
                 !.nid = @ + 1,
                 !.v = InstV(s.nid)]

\* IRBuilder::Insert at builder_'s insertion point (the end of block ip); an
\* instruction built without insertion block is created and not inserted
Emit(s, kind, sub, name, x, y, z) ==
  IF s.exc # "none" THEN s
  ELSE IF s.ip = NullV THEN [s EXCEPT !.nid = @ + 1, !.v = InstV(s.nid)]
  ELSE EmitAt(s, s.ip, kind, sub, name, x, y, z)

\* entryBuilder.SetInsertPoint(&entryBlock->front()): insert before the first
\* instruction of the function's first block
EmitFront(s, f, kind, sub, name, x, y, z) ==
  IF s.exc # "none" THEN s
  ELSE [s EXCEPT !.module[f] =
                   setName([s.module[f] EXCEPT !.blocks[1].ops =
                              <<[Mk(s, kind, sub, name, x, y, z) EXCEPT
                                   !.uniq = UniqueName(s.module[f], name)]>> \o @],
                           name),
                 !.nid = @ + 1,
                 !.v = InstV(s.nid)]

\* the instruction constructors dereference their operands
CreateLoad(s, ptr, name) ==
  IF ptr = NullV THEN Crash(s)
  ELSE Emit(s, "load", "", name, ptr, NullV, NullV)

CreateStore(s, val, ptr) ==
  IF val = NullV \/ ptr = NullV THEN Crash(s)
  ELSE Emit(s, "store", "", "", val, ptr, NullV)

\* IRBuilder folds an operation on two constants (ConstantFolder)
CreateBinOp(s, sub, l, r, name) ==
  IF l = NullV \/ r = NullV THEN Crash(s)
  ELSE IF IsConst(l) /\ IsConst(r) THEN Ret(s, FoldBinOp(sub, l.n, r.n))
  ELSE Emit(s, "binop", sub, name, l, r, NullV)

CreateICmp(s, pred, l, r, name) ==
  IF l = NullV \/ r = NullV THEN Crash(s)
  ELSE IF IsConst(l) /\ IsConst(r)
    THEN Ret(s, ConstBoolV(BoolInt(EvalPred(pred, l.n, r.n))))
  ELSE Emit(s, "icmp", pred, name, l, r, NullV)

CreateZExt(s, v, name) ==
  IF v = NullV THEN Crash(s)
  ELSE IF v.k = "constbool" THEN Ret(s, ConstV(v.n))
  ELSE Emit(s, "zext", "", name, v, NullV, NullV)

CreateIntToPtr(s, v, name) ==
  IF v = NullV THEN Crash(s)
  ELSE IF IsConst(v) THEN Ret(s, ConstPtrV(v.n))
  ELSE Emit(s, "inttoptr", "", name, v, NullV, NullV)

CreateCall(s, fv) == Emit(s, "call", "", "", fv, NullV, NullV)

CreateRet(s, v) == Emit(s, "ret", "", "", v, NullV, NullV)

CreateBr(s, target) == Emit(s, "br", "", "", target, NullV, NullV)

CreateCondBr(s, cond, t, f) == Emit(s, "condbr", "", "", cond, t, f)

\* llvm::BasicBlock::Create(ctx, name, func): appended to func's block list
BasicBlockCreate(s, name, f) ==
  IF s.exc # "none" THEN s
  ELSE [s EXCEPT !.module[f] =
                   setName([s.module[f] EXCEPT !.blocks =
                              Append(@, [name |-> name,
                                         uniq |-> UniqueName(s.module[f], name),
                                         ops |-> <<>>])],
                           name),
                 !.v = BlockV(f, Len(s.module[f].blocks) + 1)]

SetInsertPoint(s, blk) == IF s.exc # "none" THEN s ELSE [s EXCEPT !.ip = blk]

\* the call's argument is the value the previous call returned
LoadV(s, name) == CreateLoad(s, s.v, name)
IntToPtrV(s, name) == CreateIntToPtr(s, s.v, name)
RetV(s) == CreateRet(s, s.v)
SetInsertPointV(s) == SetInsertPoint(s, s.v)
BasicBlockCreateV(s, name) == BasicBlockCreate(s, name, s.v.n)
\* store the local `name` through the pointer just returned
StoreLocal(s, name) == CreateStore(s, s.loc[name], s.v)
\* store the value just returned through the pointer held in local `name`
StoreThrough(s, name) == CreateStore(s, s.v, s.loc[name])

\* ------------------------------------------------------------------------
\* AssemblyLifter: helpers
\* ------------------------------------------------------------------------
\* variant: the functions_ lookup is skipped, a function is created every time
getOrCreateFunction_NoLookup(s, funcName) ==
  IF s.exc # "none" THEN s
  ELSE [s EXCEPT !.module = Append(@, [name |-> funcName, blocks |-> <<>>,
                                             symtab |-> {}, lastUnique |-> 0]),
                 !.functions = MapPut(@, funcName, Len(s.module) + 1),
                 !.v = FuncV(Len(s.module) + 1)]

getOrCreateFunction(s, funcName) ==
  IF s.exc # "none" THEN s
  ELSE IF funcName \in DOMAIN s.functions THEN Ret(s, FuncV(s.functions[funcName]))
  ELSE [s EXCEPT !.module = Append(@, [name |-> funcName, blocks |-> <<>>,
                                             symtab |-> {}, lastUnique |-> 0]),
                 !.functions = MapPut(@, funcName, Len(s.module) + 1),
                 !.v = FuncV(Len(s.module) + 1)]

RecordBlock(s, labelName) ==
  IF s.exc # "none" THEN s ELSE [s EXCEPT !.blocks = MapPut(@, labelName, s.v)]

getOrCreateBlock(s, labelName) ==
  IF s.exc # "none" THEN s
  ELSE IF labelName \in DOMAIN s.blocks THEN Ret(s, s.blocks[labelName])
  ELSE RecordBlock(
         BasicBlockCreateV(IF s.ip # NullV THEN Ret(s, FuncV(s.ip.n))
                           ELSE getOrCreateFunction(s, "main"),
                           labelName),
         labelName)

RecordRegister(s, regName) ==
  IF s.exc # "none" THEN s
  ELSE [s EXCEPT !.registers = MapPut(@, regName, s.v.n)]

\* getOrCreateRegister when builder_ has an insertion block
allocaWithBlock(s, regName) ==
  IF s.module[s.ip.n].blocks # <<>>
    THEN RecordRegister(EmitFront(s, s.ip.n, "alloca", "", regName,
                                  NullV, NullV, NullV), regName)
    ELSE RecordRegister(Emit(s, "alloca", "", regName, NullV, NullV, NullV),
                        regName)

\* getOrCreateRegister when builder_ has none: s.v is function main
allocaWithoutBlock(s, regName) ==
  IF s.module[s.v.n].blocks = <<>>
    THEN RecordRegister(
           EmitFront(SetInsertPointV(BasicBlockCreate(s, "entry", s.v.n)),
                     s.v.n, "alloca", "", regName, NullV, NullV, NullV),
           regName)
    ELSE RecordRegister(
           EmitFront(SetInsertPoint(s, BlockV(s.v.n, 1)),
                     s.v.n, "alloca", "", regName, NullV, NullV, NullV),
           regName)

getOrCreateRegister(s, regName) ==
  IF s.exc # "none" THEN s
  ELSE IF regName \in DOMAIN s.registers THEN Ret(s, InstV(s.registers[regName]))
  ELSE IF s.ip # NullV THEN allocaWithBlock(s, regName)
  ELSE allocaWithoutBlock(getOrCreateFunction(s, "main"), regName)

\* result = result + (the value just returned), or that value alone
cmaAdd(s, name) ==
  IF s.exc # "none" THEN s
  ELSE IF s.loc["result"] # NullV
    THEN CreateBinOp(s, "add", s.loc["result"], s.v, name)
  ELSE s

cmaBase(s, basePart) ==
  IF basePart # <<>> /\ basePart[1] = "%"
    THEN LoadV(getOrCreateRegister(s, Join(basePart)), "base_addr")
    ELSE Ret(s, NullV)

\* s.v is the loaded index; sc the result of std::stoi(scaleStr)
cmaScale(s, sc) ==
  IF ~sc.ok THEN Throw(s)
  ELSE cmaAdd(CreateBinOp(s, "mul", s.v, ConstV(sc.v), "scaled_index"),
              "indexed_mem_addr")

cmaIndexed(s, indexRegStr, scaleStr) ==
  IF indexRegStr # <<>> /\ indexRegStr[1] = "%"
    THEN cmaScale(LoadV(getOrCreateRegister(s, Join(indexRegStr)), "index_val"),
                  stoi(scaleStr))
    ELSE Ret(s, s.loc["result"])

cmaConstOffset(s, off) ==
  IF ~off.ok THEN Throw(s)
  ELSE cmaAdd(Ret(s, ConstV(off.v)), "offset_mem_addr")

cmaOffset(s, offsetPart) ==
  IF s.exc # "none" THEN s
  ELSE IF Find(offsetPart, "*") # 0
    THEN cmaIndexed(s, SubSeq(offsetPart, 1, Find(offsetPart, "*") - 1),
                    SubstrFrom(offsetPart, Find(offsetPart, "*") + 1))
  ELSE IF AllNumChars(offsetPart) THEN cmaConstOffset(s, stoi(offsetPart))
  ELSE IF offsetPart[1] = "%"
    THEN cmaAdd(LoadV(getOrCreateRegister(s, Join(offsetPart)), "offset_val"),
                "reg_offset_mem_addr")
  ELSE Ret(s, s.loc["result"])

cmaFinish(s, operand) ==
  IF s.exc # "none" THEN s
  ELSE IF s.v = NullV
    THEN SetErr(s, "Failed to calculate memory address: " \o Join(operand.value))
  ELSE s

cmaBareInt(s, val) == IF ~val.ok THEN Throw(s) ELSE Ret(s, ConstV(val.v))

\* addr is the operand without its parentheses
cmaDispatch(s, operand, addr) ==
  IF Find(addr, "+") # 0
    THEN cmaFinish(
           cmaOffset(Let(cmaBase(s, SubSeq(addr, 1, Find(addr, "+") - 1)), "result"),
                     SubstrFrom(addr, Find(addr, "+") + 1)),
           operand)
  ELSE IF Find(addr, "%") # 0
    THEN LoadV(getOrCreateRegister(s, Join(addr)), "reg_val")
  ELSE cmaBareInt(s, stoi(addr))

calculateMemoryAddress(s, operand) ==
  IF s.exc # "none" THEN s
  ELSE cmaDispatch(s, operand, Substr(operand.value, 2, Len(operand.value) - 2))

immediateValue(s, val) == IF ~val.ok THEN Throw(s) ELSE Ret(s, ConstV(val.v))

getOperandValue(s, operand) ==
  IF s.exc # "none" THEN s
  ELSE CASE operand.type = "REGISTER" ->
              LoadV(getOrCreateRegister(s, Join(operand.value)),
                    Join(operand.value) \o "_val")
         [] operand.type = "IMMEDIATE" -> immediateValue(s, stoi(operand.value))
         [] operand.type = "MEMORY" -> calculateMemoryAddress(s, operand)
         [] operand.type = "LABEL" -> getOrCreateBlock(s, Join(operand.value))
         [] OTHER -> Ret(s, NullV)

getFlagRegister(s, flagName) == getOrCreateRegister(s, "FLAG_" \o flagName)

\* value is the value just returned
setFlagRegister(s, flagName) ==
  StoreLocal(getFlagRegister(Let(s, "value"), flagName), "value")

\* ------------------------------------------------------------------------
\* AssemblyLifter: one lift function per opcode group; s.ok is the bool the
\* C++ function returns
\* ------------------------------------------------------------------------
BinOpOf(type) ==
  CASE type = "ADD" -> "add" [] type = "SUB" -> "sub"
    [] type = "MUL" -> "mul" [] type = "DIV" -> "sdiv"

\* both operands evaluated, in order: local left and the value just returned
evalTwoOperands(s, instruction) ==
  Let(getOperandValue(Let(getOperandValue(s, instruction.operands[1]), "left"),
                      instruction.operands[2]),
      "right")

liftArithmeticStore(s, instruction) ==
  IF instruction.operands[1].type = "REGISTER"
    THEN Ok(StoreLocal(getOrCreateRegister(Let(s, "result"),
                                           Join(instruction.operands[1].value)),
                       "result"))
    ELSE Ok(s)

\* variant: the second operand is taken as the left one
liftArithmeticEmit_Swapped(s, instruction) ==
  IF s.exc # "none" THEN s
  ELSE IF s.loc["left"] = NullV \/ s.loc["right"] = NullV
    THEN Fail(s, "Failed to parse operands")
  ELSE liftArithmeticStore(
         CreateBinOp(s, BinOpOf(instruction.type), s.loc["right"], s.loc["left"],
                     BinOpOf(instruction.type)),
         instruction)

liftArithmeticEmit(s, instruction) ==
  IF s.exc # "none" THEN s
  ELSE IF s.loc["left"] = NullV \/ s.loc["right"] = NullV
    THEN Fail(s, "Failed to parse operands")
  ELSE liftArithmeticStore(
         CreateBinOp(s, BinOpOf(instruction.type), s.loc["left"], s.loc["right"],
                     BinOpOf(instruction.type)),
         instruction)

liftArithmeticInstruction(s, instruction) ==
  IF Len(instruction.operands) < 2
    THEN Fail(s, "Arithmetic instruction requires at least 2 operands")
  ELSE liftArithmeticEmit(evalTwoOperands(s, instruction), instruction)

\* MOV to a memory destination; local memPtr is the casted address
liftMoveToMemory(s, src) ==
  IF src.type = "REGISTER"
    THEN Ok(StoreThrough(LoadV(getOrCreateRegister(s, Join(src.value)), "reg_val"),
                         "memPtr"))
  ELSE IF src.type = "IMMEDIATE"
    THEN Ok(StoreThrough(getOperandValue(s, src), "memPtr"))
  ELSE Fail(s, "Source must be a register or immediate for memory destination MOV instruction")

\* local source is the evaluated second operand
liftMoveDispatch(s, dst, src) ==
  IF s.exc # "none" THEN s
  ELSE IF s.loc["source"] = NullV THEN Fail(s, "Failed to parse source operand")
  ELSE IF dst.type = "REGISTER"
    THEN Ok(StoreLocal(getOrCreateRegister(s, Join(dst.value)), "source"))
  ELSE IF dst.type = "MEMORY"
    THEN liftMoveToMemory(
           Let(IntToPtrV(calculateMemoryAddress(s, dst), "mem_ptr"), "memPtr"),
           src)
  ELSE IF src.type = "MEMORY"
    THEN IF dst.type = "REGISTER"
           THEN Ok(StoreLocal(
                     IntToPtrV(calculateMemoryAddress(
                                 Let(LoadV(getOrCreateRegister(s, Join(dst.value)),
                                           "reg_val"),
                                     "regValue"),
                                 src),
                               "mem_ptr"),
                     "regValue"))
           ELSE Fail(s, "Destination must be a register for memory access MOV instruction")
  ELSE Fail(s, "MOV instruction destination must be a register or memory access")

liftMoveInstruction(s, instruction) ==
  IF Len(instruction.operands) # 2
    THEN Fail(s, "MOV instruction requires 2 operands")
  ELSE liftMoveDispatch(Let(getOperandValue(s, instruction.operands[2]), "source"),
                        instruction.operands[1], instruction.operands[2])

\* variant: signed less-than built as signed less-or-equal
compareStep_LtAsLe(s, pred, name, local) ==
  Let(CreateICmp(s, IF pred = "slt" THEN "sle" ELSE pred,
                 s.loc["left"], s.loc["right"], name), local)

\* one CreateICmp<pred>(left, right) kept in a local
compareStep(s, pred, name, local) ==
  Let(CreateICmp(s, pred, s.loc["left"], s.loc["right"], name), local)

\* setFlagRegister(flag, CreateZExt(local))
flagStep(s, local, name, flagName) ==
  setFlagRegister(CreateZExt(s, s.loc[local], name), flagName)

liftCompareEmit(s) ==
  IF s.exc # "none" THEN s
  ELSE IF s.loc["left"] = NullV \/ s.loc["right"] = NullV
    THEN Fail(s, "Failed to parse CMP instruction operands")
  ELSE Ok(flagStep(flagStep(flagStep(flagStep(flagStep(
            compareStep(compareStep(compareStep(compareStep(compareStep(s,
              "eq", "cmp_eq", "eq"),
              "slt", "cmp_lt", "lt"),
              "sgt", "cmp_gt", "gt"),
              "sle", "cmp_le", "le"),
              "sge", "cmp_ge", "ge"),
            "eq", "zf_int", "ZF"),
            "lt", "lt_int", "LT"),
            "gt", "gt_int", "GT"),
            "le", "le_int", "LE"),
            "ge", "ge_int", "GE"))

liftCompareInstruction(s, instruction) ==
  IF Len(instruction.operands) # 2
    THEN Fail(s, "CMP instruction requires 2 operands")
  ELSE liftCompareEmit(evalTwoOperands(s, instruction))

\* variant: the result of the call goes to %ebx
liftCallEmit_IntoEbx(s, funcName) ==
  IF s.exc # "none" THEN s
  ELSE IF s.v = NullV THEN Fail(s, "Function not found: " \o funcName)
  ELSE Ok(StoreLocal(getOrCreateRegister(Let(CreateCall(s, s.v), "callResult"),
                                         "%ebx"),
                     "callResult"))

\* s.v is the callee
liftCallEmit(s, funcName) ==
  IF s.exc # "none" THEN s
  ELSE IF s.v = NullV THEN Fail(s, "Function not found: " \o funcName)
  ELSE Ok(StoreLocal(getOrCreateRegister(Let(CreateCall(s, s.v), "callResult"),
                                         "%eax"),
                     "callResult"))

liftCallInstruction(s, instruction) ==
  IF Len(instruction.operands) # 1
    THEN Fail(s, "CALL instruction requires 1 operand")
  ELSE liftCallEmit(getOrCreateFunction(s, Join(instruction.operands[1].value)),
                    Join(instruction.operands[1].value))

liftReturnValue(s) ==
  IF s.exc # "none" THEN s
  ELSE IF s.v = NullV THEN Fail(s, "Failed to parse RET instruction operand")
  ELSE Ok(RetV(s))

liftReturnInstruction(s, instruction) ==
  IF instruction.operands = <<>>
    THEN Ok(RetV(LoadV(getOrCreateRegister(s, "%eax"), "eax_val")))
    ELSE liftReturnValue(getOperandValue(s, instruction.operands[1]))

\* locals stackPtr and stackValue
loadStackPtr(s) ==
  Let(LoadV(Let(getOrCreateRegister(s, "STACK_PTR"), "stackPtr"), "stack_ptr_val"),
      "stackValue")

\* variant: the stack pointer is lowered by POP as it is by PUSH
adjustStackPtr_AlwaysDown(s, sub) ==
  StoreThrough(Let(CreateBinOp(s, "sub", s.loc["stackValue"], ConstV(4),
                               "new_stack_ptr"),
                   "newStackPtr"),
               "stackPtr")

\* local newStackPtr = stackValue -/+ 4, stored back to STACK_PTR
adjustStackPtr(s, sub) ==
  StoreThrough(Let(CreateBinOp(s, sub, s.loc["stackValue"], ConstV(4),
                               "new_stack_ptr"),
                   "newStackPtr"),
               "stackPtr")

IntToPtrLocal(s, local, name) == CreateIntToPtr(s, s.loc[local], name)

\* PUSH: local value is the evaluated operand
liftPushEmit(s) ==
  IF s.exc # "none" THEN s
  ELSE IF s.loc["value"] = NullV
    THEN Fail(s, "Failed to parse PUSH instruction operand")
  ELSE Ok(StoreLocal(IntToPtrLocal(adjustStackPtr(loadStackPtr(s), "sub"),
                                   "newStackPtr", "stack_addr"),
                     "value"))

liftPopEmit(s, instruction) ==
  IF instruction.operands[1].type = "REGISTER"
    THEN Ok(StoreLocal(getOrCreateRegister(s, Join(instruction.operands[1].value)),
                       "value"))
    ELSE Ok(s)

liftStackInstruction(s, instruction) ==
  IF instruction.type = "PUSH" THEN
    IF Len(instruction.operands) # 1
      THEN Fail(s, "PUSH instruction requires 1 operand")
      ELSE liftPushEmit(Let(getOperandValue(s, instruction.operands[1]), "value"))
  ELSE IF instruction.type = "POP" THEN
    IF Len(instruction.operands) # 1
      THEN Fail(s, "POP instruction requires 1 operand")
      ELSE liftPopEmit(
             adjustStackPtr(
               Let(LoadV(IntToPtrV(loadStackPtr(s), "stack_addr"), "stack_val"),
                   "value"),
               "add"),
             instruction)
  ELSE Ok(s)

\* the getFlagCond lambda: load the flag slot and compare it with zero
flagCompare(s, name, branchWhenNonZero) ==
  IF branchWhenNonZero
    THEN CreateICmp(s, "ne", s.v, ConstV(0), name \o "_nz")
    ELSE CreateICmp(s, "eq", s.v, ConstV(0), name \o "_z")

getFlagCond(s, name, branchWhenNonZero) ==
  flagCompare(LoadV(getFlagRegister(s, name), name \o "_val"), name,
              branchWhenNonZero)

\* CreateCondBr(the condition just returned, local ifTrue, local ifFalse)
condBr(s, ifTrue, ifFalse) ==
  IF s.exc # "none" THEN s
  ELSE CreateCondBr(s, s.v, s.loc[ifTrue], s.loc[ifFalse])

\* the inner switch of liftJumpInstruction: the cond_br of each conditional
\* jump, over the locals targetBlock and fallthrough
emitCondBr(s, type) ==
  CASE type = "JE"  -> condBr(getFlagCond(s, "ZF", TRUE), "targetBlock", "fallthrough")
    [] type = "JNE" -> condBr(getFlagCond(s, "ZF", FALSE), "fallthrough", "targetBlock")
    [] type = "JL"  -> condBr(getFlagCond(s, "LT", TRUE), "targetBlock", "fallthrough")
    [] type = "JG"  -> condBr(getFlagCond(s, "GT", TRUE), "targetBlock", "fallthrough")
    [] type = "JLE" -> condBr(getFlagCond(s, "LE", TRUE), "targetBlock", "fallthrough")
    [] type = "JGE" -> condBr(getFlagCond(s, "GE", TRUE), "targetBlock", "fallthrough")
    [] OTHER -> CreateBr(s, s.loc["targetBlock"])

SetInsertPointLocal(s, local) ==
  IF s.exc # "none" THEN s ELSE SetInsertPoint(s, s.loc[local])

\* variant: the counter is not incremented
newFallthrough_NoIncrement(s) ==
  Let(BasicBlockCreate(s, "fallthrough_" \o ToString(s.ftc), s.ip.n),
      "fallthrough")

\* the name of the next fallthrough block; the counter is post-incremented
newFallthrough(s) ==
  Let(BasicBlockCreate([s EXCEPT !.ftc = @ + 1],
                       "fallthrough_" \o ToString(s.ftc), s.ip.n),
      "fallthrough")

\* local targetBlock is the block of the jump's operand
liftJumpEmit(s, instruction) ==
  IF s.exc # "none" THEN s
  ELSE IF s.loc["targetBlock"] = NullV
    THEN Fail(s, "Jump target label not found: "
                 \o Join(instruction.operands[1].value))
  ELSE IF instruction.type = "JMP"
    THEN Ok(SetInsertPointV(
              BasicBlockCreate(CreateBr(s, s.loc["targetBlock"]), "cont", s.ip.n)))
  ELSE IF instruction.type \in {"JE", "JNE", "JL", "JG", "JLE", "JGE"}
    THEN Ok(SetInsertPointLocal(emitCondBr(newFallthrough(s), instruction.type),
                                "fallthrough"))
  ELSE [s EXCEPT !.ok = FALSE]

liftJumpInstruction(s, instruction) ==
  IF Len(instruction.operands) # 1
    THEN Fail(s, "Jump instruction requires 1 operand")
  ELSE liftJumpEmit(Let(getOrCreateBlock(s, Join(instruction.operands[1].value)),
                        "targetBlock"),
                    instruction)

liftInstruction(s, instruction) ==
  CASE instruction.type \in {"ADD", "SUB", "MUL", "DIV"} ->
         liftArithmeticInstruction(s, instruction)
    [] instruction.type = "MOV" -> liftMoveInstruction(s, instruction)
    [] instruction.type = "CMP" -> liftCompareInstruction(s, instruction)
    [] instruction.type \in {"JMP", "JE", "JNE", "JL", "JG", "JLE", "JGE"} ->
         liftJumpInstruction(s, instruction)
    [] instruction.type = "CALL" -> liftCallInstruction(s, instruction)
    [] instruction.type = "RET" -> liftReturnInstruction(s, instruction)
    [] instruction.type \in {"PUSH", "POP"} -> liftStackInstruction(s, instruction)
    [] instruction.type = "LABEL" -> Ok(s)
    [] OTHER -> Fail(s, "Unsupported instruction type")

\* ------------------------------------------------------------------------
\* AssemblyLifter::liftToLLVM
\* ------------------------------------------------------------------------
NoFunc == 0

\* the pre-scan for CALL targets
scanCallTargets(instructions) ==
  {Join(instructions[k].operands[1].value) :
     k \in {j \in 1..Len(instructions) :
              /\ instructions[j].type = "CALL"
              /\ Len(instructions[j].operands) = 1
              /\ instructions[j].operands[1].type = "LABEL"}}

\* variant: the call targets are not consulted
startsFunction_NoCallTargets(labelName, targets, firstLabel) ==
  labelName = "main" \/ labelName = "start" \/ firstLabel

\* the decision of the loop body: does this label open a function?
startsFunction(labelName, targets, firstLabel) ==
  labelName = "main" \/ labelName = "start" \/ labelName \in targets \/ firstLabel

\* variant: blocks_ is kept across function starts
openFunction_KeepBlocks(s, labelName) ==
  SetInsertPointV(
    BasicBlockCreateV([s EXCEPT !.currentFunc = s.v.n,
                                !.registers = <<>>, !.isFirstLabel = FALSE,
                                !.openedNow = TRUE],
                      labelName))

\* s.v is the function of the label: clear the maps, create its block
openFunction(s, labelName) ==
  SetInsertPointV(
    BasicBlockCreateV([s EXCEPT !.currentFunc = s.v.n, !.blocks = <<>>,
                                !.registers = <<>>, !.isFirstLabel = FALSE,
                                !.openedNow = TRUE],
                      labelName))

setCurrentFunc(s) == [s EXCEPT !.currentFunc = s.v.n]

openBlock(s, labelName) ==
  SetInsertPointV(
    getOrCreateBlock(IF s.currentFunc = NoFunc
                       THEN setCurrentFunc(getOrCreateFunction(s, "main"))
                       ELSE s,
                     labelName))

\* s.v is function main
openImplicitMain(s) ==
  SetInsertPointV(
    BasicBlockCreateV([s EXCEPT !.currentFunc = s.v.n, !.isFirstLabel = FALSE],
                      "main"))

\* the part of the loop body that precedes liftInstruction
openLabel(s, instruction, targets) ==
  IF instruction.label # "" THEN
    IF startsFunction(instruction.label, targets, s.isFirstLabel)
      THEN openFunction(getOrCreateFunction(s, instruction.label), instruction.label)
      ELSE openBlock(s, instruction.label)
  ELSE IF s.currentFunc = NoFunc /\ s.isFirstLabel
    THEN openImplicitMain(getOrCreateFunction(s, "main"))
  ELSE s

\* BasicBlock::getTerminator: the last instruction, if it is a terminator
HasTerminator(block) ==
  block.ops # <<>> /\ block.ops[Len(block.ops)].kind \in Terminators

\* the %eax slot the close-out of an entry block uses
closeOutEax(s, f) ==
  IF "%eax" \in DOMAIN s.registers THEN Ret(s, InstV(s.registers["%eax"]))
  ELSE RecordRegister(EmitAt(s, BlockV(f, 1), "alloca", "", "%eax",
                             NullV, NullV, NullV), "%eax")

closeOutLoad(s, f, b) ==
  EmitAt(s, BlockV(f, b), "load", "", "eax_val", s.v, NullV, NullV)

closeOutRet(s, f, b) == EmitAt(s, BlockV(f, b), "ret", "", "", s.v, NullV, NullV)

\* close-out of one block
closeBlock(s, f, b) ==
  IF HasTerminator(s.module[f].blocks[b]) THEN s
  ELSE IF b = 1 THEN closeOutRet(closeOutLoad(closeOutEax(s, f), f, b), f, b)
  ELSE closeOutRet(Ret(s, ConstV(0)), f, b)

\* the two nested loops over the functions of the module and their blocks;
\* a declaration has no block
RECURSIVE closeOut(_, _, _)
closeOut(s, f, b) ==
  IF f > Len(s.module) THEN s
  ELSE IF b > Len(s.module[f].blocks) THEN closeOut(s, f + 1, 1)
  ELSE closeOut(closeBlock(s, f, b), f, b + 1)

\* locals of the lift functions die with the call
ClearLocals(s) == [s EXCEPT !.loc = <<>>, !.v = NullV]

\* ------------------------------------------------------------------------
\* Inputs: tokenised source lines
\* ------------------------------------------------------------------------
\* operand tokens, character by character
tEAX           == <<"%", "e", "a", "x">>
tEBX           == <<"%", "e", "b", "x">>
tOne           == <<"1">>
tNegFive       == <<"-", "5">>
tMinus         == <<"-">>
tPlus          == <<"+">>
tEmpty         == <<>>
tOneMinusTwo   == <<"1", "-", "2">>
tL             == <<"L">>
tF             == <<"f">>
tMemIndexed    == <<"(", "%", "e", "a", "x", "+", "%", "e", "b", "x", "*", "4", ")">>
tMemOffset     == <<"(", "%", "e", "a", "x", "+", "4", ")">>
tMemRegOffset  == <<"(", "%", "e", "a", "x", "+", "%", "e", "b", "x", ")">>
tMemReg        == <<"(", "%", "e", "a", "x", ")">>
tMemAbs        == <<"(", "8", ")">>
tMemBadBase    == <<"(", "a", "+", "4", ")">>
tMemBadOffset  == <<"(", "%", "e", "a", "x", "+", "b", ")">>
tMemIdent      == <<"(", "a", "b", "c", ")">>
tMemBadBoth    == <<"(", "a", "+", "b", ")">>
tMemNoOffset   == <<"(", "%", "e", "a", "x", "+", ")">>
tMemBadIndex   == <<"(", "%", "e", "a", "x", "+", "b", "*", "4", ")">>
tMemNoScale    == <<"(", "%", "e", "a", "x", "+", "%", "e", "b", "x", "*", ")">>

\* the first of two operands is written with its trailing comma
Comma(tk) == Append(tk, ",")

RegTokens  == {tEAX, tEBX}
ImmTokens  == {tOne, tNegFive, tMinus, tPlus, tEmpty, tOneMinusTwo}
LblTokens  == {tL}
GoodMemTokens == {tMemIndexed, tMemOffset, tMemRegOffset, tMemReg, tMemAbs}
BadMemTokens  == {tMemBadBase, tMemBadOffset, tMemIdent, tMemBadBoth,
                  tMemNoOffset, tMemBadIndex, tMemNoScale}
MemTokens  == GoodMemTokens \cup BadMemTokens
Tokens     == RegTokens \cup ImmTokens \cup LblTokens \cup MemTokens

\* control-flow programs: any sequence of at most MaxLen of these lines
FlowLines ==
  { Line("main", "", <<>>), Line("start", "", <<>>), Line("f", "", <<>>),
    Line("L", "", <<>>),
    Line("", "RET", <<>>), Line("", "MOV", <<Comma(tEBX), tOne>>),
    Line("", "JMP", <<tL>>), Line("", "JE", <<tL>>), Line("", "CALL", <<tF>>) }

FlowPrograms == UNION {[1..k -> FlowLines] : k \in 0..MaxLen}

\* operand programs: one instruction, every operand shape
OperandPrograms ==
  { <<Line("", "MOV", <<Comma(a), b>>)>> : a \in Tokens, b \in Tokens }
  \cup { <<Line("", m, <<a>>)>> :
           m \in {"RET", "PUSH", "POP", "JMP", "CALL"}, a \in Tokens }
  \cup { <<Line("", m, <<Comma(a), b>>)>> :
           m \in {"ADD", "SUB", "MUL", "DIV", "CMP"},
           a \in RegTokens \cup {tOne, tMemOffset},
           b \in RegTokens \cup {tOne, tMinus, tMemIdent} }
  \cup { <<Line("", "XYZ", <<>>)>>, <<Line("main", "MOV", <<tEAX>>)>>,
         <<Line("", "RET", <<tOne, tOne>>)>>,
         <<Line("", "ADD", <<Comma(tEAX), Comma(tOne), tOne>>)>> }

\* stack programs: n PUSH of a number or a register, then n POP to registers
MaxStack == 2

PushLines == { Line("", "PUSH", <<a>>) : a \in {tOne, tNegFive, tEAX} }
PopLines  == { Line("", "POP", <<r>>) : r \in RegTokens }

StackPrograms ==
  UNION { { push \o pop : push \in [1..n -> PushLines], pop \in [1..n -> PopLines] }
          : n \in 1..MaxStack }

\* the arithmetic example: MOV %eax, 3; MOV %ebx, 4; ADD %eax, %ebx; RET
tThree == <<"3">>
tFour  == <<"4">>
ExamplePrograms ==
  { <<Line("main", "MOV", <<Comma(tEAX), tThree>>),
      Line("", "MOV", <<Comma(tEBX), tFour>>),
      Line("", "ADD", <<Comma(tEAX), tEBX>>),
      Line("", "RET", <<>>)>> }

\* conditional-jump programs: every conditional mnemonic, in a few contexts
JccMnemonics == {"JE", "JZ", "JNE", "JNZ", "JL", "JG", "JLE", "JGE"}

JccPrograms ==
  { pre \o <<Line("", m, <<tL>>)>> \o post :
      m \in JccMnemonics,
      pre \in {<<>>, <<Line("main", "", <<>>)>>, <<Line("L", "", <<>>)>>,
               <<Line("fallthrough_0", "", <<>>)>>,
               <<Line("", "CMP", <<Comma(tEAX), tOne>>)>>},
      post \in {<<>>, <<Line("L", "", <<>>)>>, <<Line("", "RET", <<>>)>>} }

\* ------------------------------------------------------------------------
\* WasmGenerator.  The generator object g has the fields functionMap_
\* (function index -> wasm function index), localMap_ (instruction id ->
\* local index), blockMap_ (block index -> branch depth), currentFunction_,
\* errorMessage_, wasmModule_.functions and .functionIndices, and, while a
\* function is converted, wasmFunc (name, locals, instructions) and the
\* counter localIndex of convertFunction; ok is the bool returned last, v the
\* index returned last, src the id of the llvm instruction being converted
\* (kept with every wasm instruction it emits).  m is the llvm module.
\* ------------------------------------------------------------------------
NewWasmFunction(name) ==
  [name |-> name, params |-> <<>>, locals |-> <<>>, returnType |-> "i32",
   instructions |-> <<>>]

NewGenerator ==
  [functionMap |-> <<>>, localMap |-> <<>>, blockMap |-> <<>>,
   currentFunction |-> 0, err |-> "", functions |-> <<>>,
   functionIndices |-> <<>>, wasmFunc |-> NewWasmFunction(""),
   localIndex |-> 0, ok |-> TRUE, v |-> 0, src |-> 0]

GenFail(g, msg) == [g EXCEPT !.err = msg, !.ok = FALSE]

\* WasmInstruction(opcode) and WasmInstruction(opcode, operand), pushed on
\* wasmFunc.instructions
WasmInstruction(g, opcode, operands) ==
  [opcode |-> opcode, operands |-> operands, src |-> g.src]

Push(g, opcode, operands) ==
  [g EXCEPT !.wasmFunc.instructions = Append(@, WasmInstruction(g, opcode, operands))]

\* ConstantInt::getZExtValue of an i32 or i1 constant: the 32-bit pattern as
\* an unsigned number, kept as its two 16-bit halves
getZExtValue(n) == <<(n \div 65536) % 65536, n % 65536>>

\* the instructions of the module
IrOps(m) ==
  UNION { UNION { { m[f].blocks[b].ops[p] : p \in 1..Len(m[f].blocks[b].ops) }
                  : b \in 1..Len(m[f].blocks) } : f \in 1..Len(m) }

\* llvm::isa<> on a value: the class of instruction, "ConstantInt", or
\* "Value" for anything else (other constants, blocks, functions, and an
\* instruction that was never inserted)
ClassOf(m, v) ==
  CASE v.k \in {"const", "constbool"} -> "ConstantInt"
    [] v.k = "inst" /\ (\E op \in IrOps(m) : op.id = v.n) ->
         (CHOOSE op \in IrOps(m) : op.id = v.n).kind
    [] OTHER -> "Value"

IsInstruction(m, v) == ClassOf(m, v) \notin {"ConstantInt", "Value"}

IrOp(m, v) == CHOOSE op \in IrOps(m) : op.id = v.n

convertLLVMType(type) == IF type = "void" THEN "void" ELSE "i32"

assignLocalIndex(g, id, type) ==
  IF id \in DOMAIN g.localMap THEN [g EXCEPT !.v = g.localMap[id]]
  ELSE [g EXCEPT !.wasmFunc.locals = Append(@, type),
                 !.localMap = MapPut(@, id, Len(g.wasmFunc.params)
                                            + Len(g.wasmFunc.locals)),
                 !.v = Len(g.wasmFunc.params) + Len(g.wasmFunc.locals)]

getLocalIndex(g, v) ==
  IF v.k = "inst" /\ v.n \in DOMAIN g.localMap THEN g.localMap[v.n] ELSE 0

\* the instructions of a function, block after block
RECURSIVE FunctionOps(_, _)
FunctionOps(blocks, b) ==
  IF b > Len(blocks) THEN <<>>
  ELSE blocks[b].ops \o FunctionOps(blocks, b + 1)

\* convertFunction, first loop: every alloca gets a local
RECURSIVE assignAllocas(_, _, _)
assignAllocas(g, ops, k) ==
  IF ~g.ok \/ k > Len(ops) THEN g
  ELSE assignAllocas(IF ops[k].kind = "alloca"
                       THEN assignLocalIndex(g, ops[k].id, "i32")
                       ELSE g,
                     ops, k + 1)

\* convertFunction, second loop, one instruction
assignValue(g, op) ==
  IF op.kind \in {"binop", "icmp", "zext", "inttoptr"}
    THEN assignLocalIndex(g, op.id, convertLLVMType(TypeOfKind(op.kind)))
  ELSE IF TypeOfKind(op.kind) # "void"
    THEN [g EXCEPT !.wasmFunc.locals = Append(@, convertLLVMType(TypeOfKind(op.kind))),
                   !.localMap = MapPut(@, op.id, g.localIndex),
                   !.localIndex = @ + 1]
  ELSE g

RECURSIVE assignValues(_, _, _)
assignValues(g, ops, k) ==
  IF ~g.ok \/ k > Len(ops) THEN g
  ELSE assignValues(assignValue(g, ops[k]), ops, k + 1)

\* blockPositions[block] for a block value seen from function f: a block of
\* another function is not in the map and reads as the default 0
blockPosition(f, blk) == IF blk.n = f THEN blk.m - 1 ELSE 0

\* convertFunction, third loop: the depth recorded for block b by its
\* unconditional branches, the later branch overwriting the earlier
RECURSIVE recordDepths(_, _, _, _, _)
recordDepths(g, f, b, ops, k) ==
  IF ~g.ok \/ k > Len(ops) THEN g
  ELSE recordDepths(
         IF /\ ops[k].kind = "br"
            /\ blockPosition(f, ops[k].x) > (b - 1) + 1
           THEN [g EXCEPT !.blockMap =
                   MapPut(@, b, blockPosition(f, ops[k].x) - (b - 1) - 1)]
           ELSE g,
         f, b, ops, k + 1)

\* the operand of a GET_LOCAL for a loaded value: the local of its pointer
loadedLocal(g, m, v) == getLocalIndex(g, IrOp(m, v).x)

\* if (LoadInst) GET_LOCAL ... else if (ConstantInt) I32_CONST ...
pushLoadOrConst(g, m, v) ==
  IF ClassOf(m, v) = "load" THEN Push(g, "GET_LOCAL", <<loadedLocal(g, m, v)>>)
  ELSE IF ClassOf(m, v) = "ConstantInt" THEN Push(g, "I32_CONST", getZExtValue(v.n))
  ELSE g

\* the switch over the predicate in convertBranchInstruction
branchCompareOpcode(pred) ==
  CASE pred = "eq"  -> "I32_EQ"   [] pred = "ne"  -> "I32_NE"
    [] pred = "slt" -> "I32_LT_S" [] pred = "sgt" -> "I32_GT_S"
    [] pred = "sle" -> "I32_LE_S" [] pred = "sge" -> "I32_GE_S"
    [] OTHER -> "I32_EQ"

\* the condition of a conditional branch
pushCondition(g, m, condition) ==
  CASE ClassOf(m, condition) = "icmp" ->
         Push(pushLoadOrConst(pushLoadOrConst(g, m, IrOp(m, condition).x),
                              m, IrOp(m, condition).y),
              branchCompareOpcode(IrOp(m, condition).sub), <<>>)
    [] ClassOf(m, condition) = "load" ->
         Push(Push(Push(g, "GET_LOCAL", <<loadedLocal(g, m, condition)>>),
                   "I32_CONST", getZExtValue(0)),
              "I32_NE", <<>>)
    [] ClassOf(m, condition) = "zext" ->
         Push(Push(Push(g, "GET_LOCAL",
                        <<IF ClassOf(m, IrOp(m, condition).x) = "load"
                            THEN loadedLocal(g, m, IrOp(m, condition).x)
                            ELSE getLocalIndex(g, IrOp(m, condition).x)>>),
                   "I32_CONST", getZExtValue(0)),
              "I32_NE", <<>>)
    [] OTHER -> g

\* the depth loop: the number of positions from currentPos + 1 up to pos - 1
depthTo(currentPos, pos) ==
  IF pos > currentPos + 1 THEN pos - currentPos - 1 ELSE 0

\* the br_if of a conditional branch in the block at currentPos
pushBrIf(g, currentPos, truePos, falsePos) ==
  IF falsePos = currentPos + 1
    THEN Push(g, "BR_IF", <<depthTo(currentPos, truePos)>>)
  ELSE IF truePos = currentPos + 1
    THEN Push(Push(Push(g, "I32_CONST", getZExtValue(0)), "I32_EQ", <<>>),
              "BR_IF", <<depthTo(currentPos, falsePos)>>)
  ELSE Push(g, "BR_IF", <<0>>)

\* the branch op sits in block b of function f
convertBranchInstruction(g, m, f, b, op) ==
  IF op.kind = "br"
    THEN [(IF b \in DOMAIN g.blockMap THEN Push(g, "BR", <<g.blockMap[b]>>) ELSE g)
            EXCEPT !.ok = TRUE]
  ELSE [pushBrIf(pushCondition(g, m, op.x), b - 1,
                 blockPosition(f, op.y), blockPosition(f, op.z))
          EXCEPT !.ok = TRUE]

\* ConstantInt, LoadInst or any other instruction as an operand
pushOperand(g, m, v) ==
  IF ClassOf(m, v) = "ConstantInt" THEN Push(g, "I32_CONST", getZExtValue(v.n))
  ELSE IF ClassOf(m, v) = "load" THEN Push(g, "GET_LOCAL", <<loadedLocal(g, m, v)>>)
  ELSE IF IsInstruction(m, v) THEN Push(g, "GET_LOCAL", <<getLocalIndex(g, v)>>)
  ELSE g

arithmeticOpcode(sub) ==
  CASE sub = "add" -> "I32_ADD" [] sub = "sub" -> "I32_SUB"
    [] sub = "mul" -> "I32_MUL" [] sub = "sdiv" -> "I32_DIV_S"
    [] sub = "udiv" -> "I32_DIV_U" [] OTHER -> ""

\* the result of the instruction goes to its local: g.v is the index
setResult(g) == Push(g, "SET_LOCAL", <<g.v>>)

convertArithmeticInstruction(g, m, op) ==
  IF arithmeticOpcode(op.sub) = ""
    THEN GenFail(pushOperand(pushOperand(g, m, op.x), m, op.y),
                 "Unsupported arithmetic operation: " \o op.sub)
  ELSE [setResult(
          assignLocalIndex(
            Push(pushOperand(pushOperand(g, m, op.x), m, op.y),
                 arithmeticOpcode(op.sub), <<>>),
            op.id, convertLLVMType(TypeOfKind(op.kind))))
          EXCEPT !.ok = TRUE]

compareOpcode(pred) ==
  CASE pred = "eq"  -> "I32_EQ"   [] pred = "ne"  -> "I32_NE"
    [] pred = "slt" -> "I32_LT_S" [] pred = "ult" -> "I32_LT_U"
    [] pred = "sgt" -> "I32_GT_S" [] pred = "ugt" -> "I32_GT_U"
    [] pred = "sle" -> "I32_LE_S" [] pred = "ule" -> "I32_LE_U"
    [] pred = "sge" -> "I32_GE_S" [] pred = "uge" -> "I32_GE_U"
    [] OTHER -> ""

convertCompareInstruction(g, m, op) ==
  IF compareOpcode(op.sub) = ""
    THEN GenFail(pushLoadOrConst(pushLoadOrConst(g, m, op.x), m, op.y),
                 "Unsupported comparison operation")
  ELSE [Push(pushLoadOrConst(pushLoadOrConst(g, m, op.x), m, op.y),
             compareOpcode(op.sub), <<>>)
          EXCEPT !.ok = TRUE]

\* the integer behind an inttoptr: a binary operator is converted again in
\* place (its result ignored), a constant or a loaded value is pushed
pushAddress(g, m, v) ==
  IF ClassOf(m, v) = "binop"
    THEN [convertArithmeticInstruction(g, m, IrOp(m, v)) EXCEPT !.ok = g.ok]
  ELSE pushLoadOrConst(g, m, v)

\* the pointer operand of a load or store
pushPointer(g, m, ptr) ==
  IF ClassOf(m, ptr) = "inttoptr" THEN pushAddress(g, m, IrOp(m, ptr).x)
  ELSE Push(g, "GET_LOCAL", <<getLocalIndex(g, ptr)>>)

convertMemoryInstruction(g, m, op) ==
  IF op.kind = "load"
    THEN [Push(pushPointer(g, m, op.x), "I32_LOAD", <<>>) EXCEPT !.ok = TRUE]
  ELSE [Push(pushOperand(pushPointer(g, m, op.y), m, op.x), "I32_STORE", <<>>)
          EXCEPT !.ok = TRUE]

\* the call has no arguments
convertCallInstruction(g, m, op) ==
  [(IF op.x.k = "func" /\ op.x.n \in DOMAIN g.functionMap
      THEN Push(g, "CALL", <<g.functionMap[op.x.n]>>)
      ELSE g)
     EXCEPT !.ok = TRUE]

convertReturnInstruction(g, m, op) ==
  [Push(IF ClassOf(m, op.x) = "ConstantInt"
          THEN Push(g, "I32_CONST", getZExtValue(op.x.n))
          ELSE g,
        "RETURN", <<>>)
     EXCEPT !.ok = TRUE]

convertIntToPtrInstruction(g, m, op) ==
  [pushAddress(g, m, op.x) EXCEPT !.ok = TRUE]

\* the ZExtInst branch of convertInstruction, after its operand
convertZExtResult(g, op) ==
  IF ~g.ok THEN g
  ELSE setResult(assignLocalIndex(g, op.id, convertLLVMType(TypeOfKind(op.kind))))

convertZExt(g, m, op) ==
  CASE ClassOf(m, op.x) = "icmp" ->
         convertZExtResult(convertCompareInstruction(g, m, IrOp(m, op.x)), op)
    [] ClassOf(m, op.x) = "ConstantInt" ->
         convertZExtResult([Push(g, "I32_CONST", getZExtValue(op.x.n))
                              EXCEPT !.ok = TRUE], op)
    [] ClassOf(m, op.x) = "load" ->
         convertZExtResult([Push(g, "GET_LOCAL", <<loadedLocal(g, m, op.x)>>)
                              EXCEPT !.ok = TRUE], op)
    [] IsInstruction(m, op.x) ->
         convertZExtResult([Push(g, "GET_LOCAL", <<getLocalIndex(g, op.x)>>)
                              EXCEPT !.ok = TRUE], op)
    [] OTHER -> GenFail(g, "Unsupported ZExt operand")

\* op sits in block b of function f
convertInstruction(g, m, f, b, op) ==
  CASE op.kind = "binop" -> convertArithmeticInstruction(g, m, op)
    [] op.kind = "icmp" -> convertCompareInstruction(g, m, op)
    [] op.kind \in {"br", "condbr"} -> convertBranchInstruction(g, m, f, b, op)
    [] op.kind = "call" -> convertCallInstruction(g, m, op)
    [] op.kind = "ret" -> convertReturnInstruction(g, m, op)
    [] op.kind \in {"load", "store"} -> convertMemoryInstruction(g, m, op)
    [] op.kind = "alloca" -> [g EXCEPT !.ok = TRUE]
    [] op.kind = "inttoptr" -> convertIntToPtrInstruction(g, m, op)
    [] op.kind = "zext" -> convertZExt(g, m, op)
    [] OTHER -> GenFail(g, "Unsupported LLVM instruction: " \o op.kind)

\* the loop ends at the first instruction that returns false
RECURSIVE convertBasicBlock(_, _, _, _, _)
convertBasicBlock(g, m, f, b, k) ==
  IF ~g.ok \/ k > Len(m[f].blocks[b].ops) THEN g
  ELSE convertBasicBlock(
         convertInstruction([g EXCEPT !.src = m[f].blocks[b].ops[k].id],
                            m, f, b, m[f].blocks[b].ops[k]),
         m, f, b, k + 1)

\* convertFunction, third loop: per block, the depths and then the block
RECURSIVE convertBlocks(_, _, _, _)
convertBlocks(g, m, f, b) ==
  IF ~g.ok \/ b > Len(m[f].blocks) THEN g
  ELSE convertBlocks(
         convertBasicBlock(recordDepths(g, f, b, m[f].blocks[b].ops, 1), m, f, b, 1),
         m, f, b + 1)

\* the end of convertFunction: the function joins the module
pushFunction(g) ==
  IF ~g.ok THEN g
  ELSE [g EXCEPT !.functions = Append(@, g.wasmFunc),
                 !.functionIndices = MapPut(@, g.wasmFunc.name, Len(g.functions))]

convertFunction(g, m, f) ==
  pushFunction(
    convertBlocks(
      assignValues(
        assignAllocas([g EXCEPT !.localMap = <<>>, !.blockMap = <<>>,
                                !.currentFunction = f,
                                !.wasmFunc = NewWasmFunction(m[f].name),
                                !.localIndex = 0],
                      FunctionOps(m[f].blocks, 1), 1),
        FunctionOps(m[f].blocks, 1), 1),
      m, f, 1))

\* generateWasm, first loop: the indices of the functions that have a body
RECURSIVE indexFunctions(_, _, _, _)
indexFunctions(g, m, f, funcIndex) ==
  IF ~g.ok \/ f > Len(m) THEN g
  ELSE IF m[f].blocks # <<>>
    THEN indexFunctions([g EXCEPT !.functionMap = MapPut(@, f, funcIndex)],
                        m, f + 1, funcIndex + 1)
  ELSE indexFunctions(g, m, f + 1, funcIndex)

\* generateWasm, second loop
RECURSIVE convertFunctions(_, _, _)
convertFunctions(g, m, f) ==
  IF ~g.ok \/ f > Len(m) THEN g
  ELSE IF m[f].blocks = <<>> THEN convertFunctions(g, m, f + 1)
  ELSE convertFunctions(convertFunction(g, m, f), m, f + 1)

\* the module is never null when main calls it
generateWasm(g, m) ==
  convertFunctions(
    indexFunctions([g EXCEPT !.functionMap = <<>>, !.localMap = <<>>,
                             !.ok = TRUE], m, 1, 0),
    m, 1)

\* ------------------------------------------------------------------------
\* main: the command line.  Arguments and file names are character sequences.
\* ------------------------------------------------------------------------
optH    == <<"-", "h">>
optHelp == <<"-", "-", "h", "e", "l", "p">>
optWasm == <<"-", "-", "w", "a", "s", "m">>
optWast == <<"-", "-", "w", "a", "s", "t">>

\* std::string::find_last_of(c): position (1-based) of the last c, 0 for npos
RECURSIVE FindLastFrom(_, _, _)
FindLastFrom(s, c, p) ==
  IF p = 0 THEN 0
  ELSE IF s[p] = c THEN p ELSE FindLastFrom(s, c, p - 1)

deriveOutputName(inputFile, extension) ==
  (IF FindLastFrom(inputFile, ".", Len(inputFile)) = 0
     THEN inputFile
     ELSE Substr(inputFile, 1, FindLastFrom(inputFile, ".", Len(inputFile)) - 1))
  \o extension

\* the locals of main: inputFile, wasmFile, wastFile; status is "running"
\* until main returns, then the value returned
NewMain == [inputFile |-> <<>>, wasmFile |-> <<>>, wastFile |-> <<>>,
            status |-> "running"]

Return(c, status) == [c EXCEPT !.status = status]

\* the loop over argv[1..], args[k] being argv[k]
RECURSIVE argLoop(_, _, _)
argLoop(c, args, k) ==
  IF k > Len(args) THEN c
  ELSE IF args[k] = optH \/ args[k] = optHelp THEN Return(c, "0")
  ELSE IF args[k] = optWasm
    THEN IF k + 1 > Len(args) THEN Return(c, "1")
         ELSE argLoop([c EXCEPT !.wasmFile = args[k + 1]], args, k + 2)
  ELSE IF args[k] = optWast
    THEN IF k + 1 > Len(args) THEN Return(c, "1")
         ELSE argLoop([c EXCEPT !.wastFile = args[k + 1]], args, k + 2)
  ELSE IF args[k] # <<>> /\ args[k][1] = "-" THEN Return(c, "1")
  ELSE argLoop([c EXCEPT !.inputFile = args[k]], args, k + 1)

\* after the loop: the input file is required, the output names default
afterArgs(c) ==
  IF c.status # "running" THEN c
  ELSE IF c.inputFile = <<>> THEN Return(c, "1")
  ELSE IF c.wasmFile = <<>> /\ c.wastFile = <<>>
    THEN [c EXCEPT !.wasmFile = deriveOutputName(c.inputFile, <<".", "w", "a", "s", "m">>),
                   !.wastFile = deriveOutputName(c.inputFile, <<".", "w", "a", "t">>)]
  ELSE c

\* main up to the first stage
parseArgs(args) ==
  IF Len(args) + 1 < 2 THEN Return(NewMain, "1")
  ELSE afterArgs(argLoop(NewMain, args, 1))

\* command lines
fIn      == <<"a", ".", "s">>
fNoDot   == <<"a">>
fOutWasm == <<"o", ".", "w", "a", "s", "m">>
fOutWat  == <<"o", ".", "w", "a", "t">>
optBogus == <<"-", "x">>

DefaultArgs == <<fIn>>

ArgLists ==
  { <<>>, <<fIn>>, <<fNoDot>>, <<fIn, fNoDot>>,
    <<optH>>, <<optHelp>>, <<optH, optBogus>>, <<optBogus, optH>>, <<fIn, optH>>,
    <<optWasm>>, <<optWast>>, <<fIn, optWasm>>, <<optWasm, fOutWasm>>,
    <<optWasm, optH>>,
    <<optWasm, fOutWasm, fIn>>, <<optWast, fOutWat, fIn>>,
    <<optWasm, fOutWasm, optWast, fOutWat, fIn>>,
    <<optBogus, fIn>>, <<fIn, optBogus>>, <<<<>>>> }

\* the programs the command lines are tried with
CliPrograms ==
  { <<>>, <<Line("", "RET", <<>>)>>, <<Line("", "XYZ", <<>>)>>,
    <<Line("", "MOV", <<Comma(tEAX), tMinus>>)>>,
    <<Line("", "MOV", <<Comma(tEAX), tL>>)>>,
    <<Line("", "CALL", <<tF>>)>> }

\* ------------------------------------------------------------------------
\* The state machine
\* ------------------------------------------------------------------------
VARIABLES
  args,         \* argv[1..]
  cli,          \* the locals of main and the status main returned
  source,       \* the content of the input file, as tokenised lines
  pc,           \* "args", "parse", "scan", "loop", "closeout", "verify",
                \* "lifted" (liftToLLVM returned true), "generated",
                \* "wrotewasm", then how the run ended: "exited" (during the
                \* arguments), "rejected" (parser returned false), "liftfail"
                \* (liftToLLVM returned false), "threw" (exception),
                \* "crashed" (null dereference), "genfail", "writefail",
                \* "done"
  parser,       \* AssemblyParser: instructions_, labels_, errorMessage_
  lifter,       \* AssemblyLifter and the locals of liftToLLVM
  callTargets,  \* liftToLLVM's local callTargets
  i,            \* liftToLLVM's loop index (1-based)
  opened,       \* history: the instruction indices whose label opened a function
  generator,    \* WasmGenerator
  files,        \* the output files opened for writing so far
  stages        \* history: the stages of main started so far, in order

vars == <<args, cli, source, pc, parser, lifter, callTargets, i, opened,
          generator, files, stages>>

NewLifter ==
  [module |-> <<>>, registers |-> <<>>, blocks |-> <<>>, functions |-> <<>>,
   err |-> "", ftc |-> 0, ip |-> NullV, currentFunc |-> NoFunc,
   isFirstLabel |-> TRUE, nid |-> 1, at |-> 0, exc |-> "none",
   v |-> NullV, ok |-> TRUE, loc |-> <<>>, openedNow |-> FALSE]

Init ==
  /\ \/ /\ args = DefaultArgs
        /\ \/ source \in FlowPrograms
           \/ source \in OperandPrograms
           \/ source \in JccPrograms
           \/ source \in StackPrograms
           \/ source \in ExamplePrograms
     \/ /\ args \in ArgLists
        /\ source \in CliPrograms
  /\ cli = NewMain
  /\ pc = "args"
  /\ parser = [instructions |-> <<>>, labels |-> <<>>, err |-> "", ok |-> TRUE]
  /\ lifter = NewLifter
  /\ callTargets = {}
  /\ i = 1
  /\ opened = {}
  /\ generator = NewGenerator
  /\ files = {}
  /\ stages = <<>>

\* main: the arguments
ParseArgs ==
  /\ pc = "args"
  /\ cli' = parseArgs(args)
  /\ pc' = IF cli'.status = "running" THEN "parse" ELSE "exited"
  /\ UNCHANGED <<args, source, parser, lifter, callTargets, i, opened,
                 generator, files, stages>>

\* main: parser.parseFile(inputFile); the file opens or does not
Parse ==
  /\ pc = "parse"
  /\ \E opens \in BOOLEAN :
       parser' = IF opens THEN parseString(source)
                 ELSE [parser EXCEPT !.err = "Failed to open file: "
                                               \o Join(cli.inputFile),
                                     !.ok = FALSE]
  /\ pc' = IF parser'.ok THEN "scan" ELSE "rejected"
  /\ cli' = IF parser'.ok THEN cli ELSE Return(cli, "1")
  /\ stages' = Append(stages, "parse")
  /\ UNCHANGED <<args, source, lifter, callTargets, i, opened, generator, files>>

\* liftToLLVM, up to the loop
Scan ==
  /\ pc = "scan"
  /\ lifter' = [lifter EXCEPT !.ftc = 0, !.currentFunc = NoFunc,
                              !.isFirstLabel = TRUE]
  /\ callTargets' = scanCallTargets(parser.instructions)
  /\ i' = 1
  /\ pc' = IF parser.instructions = <<>> THEN "closeout" ELSE "loop"
  /\ stages' = Append(stages, "lift")
  /\ UNCHANGED <<args, cli, source, parser, opened, generator, files>>

\* liftToLLVM, one iteration of the loop over the instructions; main
\* returns 1 when liftToLLVM returns false, and catches no exception
LiftStep ==
  /\ pc = "loop"
  /\ i <= Len(parser.instructions)
  /\ lifter' = ClearLocals(
                 liftInstruction(
                   openLabel([lifter EXCEPT !.at = i, !.openedNow = FALSE],
                             parser.instructions[i], callTargets),
                   parser.instructions[i]))
  /\ opened' = IF lifter'.openedNow THEN opened \cup {i} ELSE opened
  /\ pc' = CASE lifter'.exc = "throw" -> "threw"
             [] lifter'.exc = "crash" -> "crashed"
             [] lifter'.exc = "none" /\ ~lifter'.ok -> "liftfail"
             [] OTHER -> IF i = Len(parser.instructions) THEN "closeout" ELSE "loop"
  /\ i' = IF lifter'.exc = "none" /\ lifter'.ok THEN i + 1 ELSE i
  /\ cli' = CASE lifter'.exc # "none" -> Return(cli, "abort")
              [] lifter'.exc = "none" /\ ~lifter'.ok -> Return(cli, "1")
              [] OTHER -> cli
  /\ UNCHANGED <<args, source, parser, callTargets, generator, files, stages>>

\* liftToLLVM, the close-out loops
CloseOut ==
  /\ pc = "closeout"
  /\ lifter' = ClearLocals(closeOut([lifter EXCEPT !.at = 0], 1, 1))
  /\ pc' = "verify"
  /\ UNCHANGED <<args, cli, source, parser, callTargets, i, opened,
                 generator, files, stages>>

\* liftToLLVM, the verification loop and the return: the result of
\* llvm::verifyFunction is computed and dropped, and true is returned
Verify ==
  /\ pc = "verify"
  /\ pc' = "lifted"
  /\ UNCHANGED <<args, cli, source, parser, lifter, callTargets, i, opened,
                 generator, files, stages>>

\* main: wasmGenerator.generateWasm(module)
Generate ==
  /\ pc = "lifted"
  /\ generator' = generateWasm(NewGenerator, lifter.module)
  /\ pc' = IF generator'.ok THEN "generated" ELSE "genfail"
  /\ cli' = IF generator'.ok THEN cli ELSE Return(cli, "1")
  /\ stages' = Append(stages, "lower")
  /\ UNCHANGED <<args, source, parser, lifter, callTargets, i, opened, files>>

\* main: writeWasmToFile(wasmFile) when a binary is asked for; an ofstream
\* that opens creates or truncates the file
WriteWasm ==
  /\ pc = "generated"
  /\ \/ /\ cli.wasmFile = <<>>
        /\ pc' = "wrotewasm"
        /\ UNCHANGED <<cli, files, stages, generator>>
     \/ /\ cli.wasmFile # <<>>
        /\ stages' = Append(stages, "writewasm")
        /\ \E opens \in BOOLEAN :
             IF opens
               THEN /\ files' = files \cup {Join(cli.wasmFile)}
                    /\ pc' = "wrotewasm"
                    /\ UNCHANGED <<cli, generator>>
               ELSE /\ generator' = GenFail(generator, "Failed to open file: "
                                                       \o Join(cli.wasmFile))
                    /\ pc' = "writefail"
                    /\ cli' = Return(cli, "1")
                    /\ UNCHANGED files
  /\ UNCHANGED <<args, source, parser, lifter, callTargets, i, opened>>

\* main: writeWastToFile(wastFile) when a text is asked for, and return 0
WriteWast ==
  /\ pc = "wrotewasm"
  /\ \/ /\ cli.wastFile = <<>>
        /\ pc' = "done"
        /\ cli' = Return(cli, "0")
        /\ UNCHANGED <<files, stages, generator>>
     \/ /\ cli.wastFile # <<>>
        /\ stages' = Append(stages, "writewast")
        /\ \E opens \in BOOLEAN :
             IF opens
               THEN /\ files' = files \cup {Join(cli.wastFile)}
                    /\ pc' = "done"
                    /\ cli' = Return(cli, "0")
                    /\ UNCHANGED generator
               ELSE /\ generator' = GenFail(generator, "Failed to open file: "
                                                       \o Join(cli.wastFile))
                    /\ pc' = "writefail"
                    /\ cli' = Return(cli, "1")
                    /\ UNCHANGED files
  /\ UNCHANGED <<args, source, parser, lifter, callTargets, i, opened>>

Next ==
  \/ ParseArgs \/ Parse \/ Scan \/ LiftStep \/ CloseOut \/ Verify
  \/ Generate \/ WriteWasm \/ WriteWast

Spec == Init /\ [][Next]_vars

TypeOK ==
  /\ pc \in {"args", "parse", "scan", "loop", "closeout", "verify", "lifted",
             "generated", "wrotewasm", "exited", "rejected", "liftfail",
             "threw", "crashed", "genfail", "writefail", "done"}
  /\ i \in 1..(Len(parser.instructions) + 1)
  /\ cli.status \in {"running", "0", "1", "abort"}
  /\ (cli.status = "running") <=>
       (pc \notin {"exited", "rejected", "liftfail", "threw", "crashed",
                   "genfail", "writefail", "done"})

\* ------------------------------------------------------------------------
\* Reading the lifted module
\* ------------------------------------------------------------------------
Module == lifter.module
FuncIdx == 1..Len(Module)
BlockIdx(f) == 1..Len(Module[f].blocks)
OpsOf(f, b) == Module[f].blocks[b].ops

\* the places <<function, block, position>> of all instructions
OpPos ==
  UNION { UNION { { <<f, b, p>> : p \in 1..Len(OpsOf(f, b)) } : b \in BlockIdx(f) }
          : f \in FuncIdx }
OpAt(l) == Module[l[1]].blocks[l[2]].ops[l[3]]

IsAllocaValue(v) ==
  v.k = "inst" /\ \E l \in OpPos : OpAt(l).id = v.n /\ OpAt(l).kind = "alloca"
PlaceOfId(id) == CHOOSE l \in OpPos : OpAt(l).id = id

\* the type of a value
TypeOf(v) ==
  CASE v.k \in {"const", "poison"} -> "i32"
    [] v.k = "constbool" -> "i1"
    [] v.k \in {"constptr", "func"} -> "ptr"
    [] v.k = "block" -> "label"
    [] v.k = "inst" -> TypeOfKind(OpAt(PlaceOfId(v.n)).kind)
    [] OTHER -> "void"

Lifted == pc = "lifted"

Instrs == parser.instructions

\* instruction j has been handed to liftInstruction
Attempted(j) ==
  \/ pc \in {"liftfail", "threw", "crashed"} /\ i = j
  \/ pc \in {"loop", "closeout", "verify", "lifted"} /\ j < i
\* ... and liftToLLVM returned false on it
Failed(j) == pc = "liftfail" /\ i = j

\* the names that are operands of a CALL
CallOperandNames ==
  { Join(Instrs[j].operands[k].value) :
      j \in {q \in 1..Len(Instrs) : Instrs[q].type = "CALL"
                                    /\ Len(Instrs[q].operands) >= 1},
      k \in {1} }

\* ------------------------------------------------------------------------
\* The mid-IR invariants
\* ------------------------------------------------------------------------
OneTerminatorLast(f, b) ==
  /\ OpsOf(f, b) # <<>>
  /\ \A p \in 1..Len(OpsOf(f, b)) :
       (OpsOf(f, b)[p].kind \in Terminators) <=> (p = Len(OpsOf(f, b)))

AllocasInEntry(f) ==
  \A l \in OpPos : (l[1] = f /\ OpAt(l).kind = "alloca") => l[2] = 1

IsBlockOf(v, f) == v.k = "block" /\ v.n = f /\ v.m \in BlockIdx(f)

\* every block a branch names is a block of the function, every callee is a
\* function of the module
ReferencesDefined(f) ==
  \A l \in OpPos : l[1] = f =>
    /\ OpAt(l).kind = "br" => IsBlockOf(OpAt(l).x, f)
    /\ OpAt(l).kind = "condbr" => IsBlockOf(OpAt(l).y, f) /\ IsBlockOf(OpAt(l).z, f)
    /\ OpAt(l).kind = "call" => OpAt(l).x.k = "func" /\ OpAt(l).x.n \in FuncIdx

ReturnsDeclaredType(f) ==
  \A l \in OpPos : (l[1] = f /\ OpAt(l).kind = "ret") => TypeOf(OpAt(l).x) = "i32"

\* C1: whenever liftToLLVM returns true, every function of the module
\* satisfies the four mid-IR invariants: each block ends in exactly one
\* terminator with nothing after it, every alloca is in the entry block, every
\* referenced block and function exists, every return has type i32.
C1_LiftedModuleWellFormed ==
  Lifted =>
    \A f \in FuncIdx :
      /\ \A b \in BlockIdx(f) : OneTerminatorLast(f, b)
      /\ AllocasInEntry(f)
      /\ ReferencesDefined(f)
      /\ ReturnsDeclaredType(f)

\* C2: after liftToLLVM, every basic block of every function contains exactly
\* one terminator, and it is the block's last operation.
C2_OneTerminatorPerBlock ==
  Lifted =>
    \A f \in FuncIdx : \A b \in BlockIdx(f) :
      /\ Cardinality({p \in 1..Len(OpsOf(f, b)) :
                        OpsOf(f, b)[p].kind \in Terminators}) = 1
      /\ OpsOf(f, b)[Len(OpsOf(f, b))].kind \in Terminators

\* ------------------------------------------------------------------------
\* Function discovery
\* ------------------------------------------------------------------------
HasLabel(j) == Instrs[j].label # ""
IsFirstLabelOfStream(j) == HasLabel(j) /\ \A q \in 1..(j - 1) : ~HasLabel(q)

ContinuesInBlockOf(j) ==
  /\ lifter.ip.k = "block"
  /\ lifter.ip.n = lifter.currentFunc
  /\ Module[lifter.ip.n].blocks[lifter.ip.m].name = Instrs[j].label

C4_OneFunctionPerCallTarget ==
  \A j \in 1..Len(Instrs) :
    (/\ pc \in {"loop", "closeout", "verify", "lifted"} /\ j < i
     /\ Instrs[j].type = "CALL" /\ Len(Instrs[j].operands) = 1)
      => Cardinality({f \in FuncIdx :
                        Module[f].name = Join(Instrs[j].operands[1].value)}) = 1

\* a lifted stream that calls the same name twice and also defines its label
C4_Witness ==
  /\ Lifted
  /\ \E j, q \in 1..Len(Instrs) :
       /\ j < q
       /\ Instrs[j].type = "CALL" /\ Instrs[q].type = "CALL"
       /\ Instrs[j].operands = Instrs[q].operands
       /\ \E r \in opened : Instrs[r].label = Join(Instrs[j].operands[1].value)

\* ------------------------------------------------------------------------
\* Slots
\* ------------------------------------------------------------------------
\* C5: after lifting, each function holds exactly one alloca per slot name,
\* the alloca lies in the entry block, and it stands before every instruction
\* that was in the entry block when it was created (instruction ids grow in
\* creation order).
C5_OneAllocaPerSlotAtEntryFront ==
  Lifted =>
    \A l \in OpPos : OpAt(l).kind = "alloca" =>
      /\ l[2] = 1
      /\ \A q \in OpPos :
           (q[1] = l[1] /\ OpAt(q).kind = "alloca" /\ OpAt(q).name = OpAt(l).name)
             => q = l
      /\ \A q \in OpPos :
           (q[1] = l[1] /\ q[2] = 1 /\ OpAt(q).id < OpAt(l).id) => l[3] < q[3]

\* the pointer a load or a store goes through
PointerOf(op) == IF op.kind = "load" THEN op.x ELSE op.y

\* the alloca at place a dominates the use at place l: it is in the entry
\* block of the same function and, when the use is in the entry block too,
\* it comes first
OwnDominatingAlloca(a, l) ==
  a[1] = l[1] /\ a[2] = 1 /\ (l[2] = 1 => a[3] < l[3])

\* C6: in every function of the lifted module, every load or store of a slot
\* goes through an alloca of the same function that dominates it.
C6_SlotUseDominatedByOwnAlloca ==
  Lifted =>
    \A l \in OpPos :
      (OpAt(l).kind \in {"load", "store"} /\ IsAllocaValue(PointerOf(OpAt(l))))
        => OwnDominatingAlloca(PlaceOfId(PointerOf(OpAt(l)).n), l)

\* ------------------------------------------------------------------------
\* Conditional jumps
\* ------------------------------------------------------------------------
CondJumps == {"JE", "JNE", "JL", "JG", "JLE", "JGE"}

\* the flag of each conditional jump and the flag values at which the jump is
\* taken, as the table of jumps gives them
FlagOfJump(type) ==
  CASE type \in {"JE", "JNE"} -> "FLAG_ZF"
    [] type = "JL" -> "FLAG_LT"
    [] type = "JG" -> "FLAG_GT"
    [] type = "JLE" -> "FLAG_LE"
    [] type = "JGE" -> "FLAG_GE"

TakenAt(type, flag) == IF type = "JNE" THEN flag = 0 ELSE flag # 0

FlagValues == {0 - 1, 0, 1, 2}

\* the cond_br emitted for instruction j, its comparison, and the slot read
CondBrOf(j) == OpAt(CHOOSE l \in OpPos : OpAt(l).kind = "condbr" /\ OpAt(l).at = j)
ConditionOf(j) == OpAt(PlaceOfId(CondBrOf(j).x.n))
SlotReadBy(j) == OpAt(PlaceOfId(OpAt(PlaceOfId(ConditionOf(j).x.n)).x.n)).name

\* where the cond_br of instruction j sends control when the flag holds flag
DestinationAt(j, flag) ==
  IF EvalPred(ConditionOf(j).sub, flag, ConditionOf(j).y.n)
    THEN CondBrOf(j).y ELSE CondBrOf(j).z

JustLifted(j) == pc \in {"loop", "closeout"} /\ j = i - 1 /\ j >= 1

\* C7: the cond_br of a conditional jump reads the jump's flag and goes to the
\* jump's target block exactly at the flag values of the table (JNE/JNZ: the
\* flag is 0, every other jump: the flag is not 0), and otherwise to the new
\* fallthrough block, in which lifting continues.
C7_CondBrTakenPerTable ==
  \A j \in 1..Len(Instrs) :
    (JustLifted(j) /\ Instrs[j].type \in CondJumps) =>
      /\ \E l \in OpPos : OpAt(l).kind = "condbr" /\ OpAt(l).at = j
      /\ SlotReadBy(j) = FlagOfJump(Instrs[j].type)
      /\ lifter.ip # lifter.blocks[Join(Instrs[j].operands[1].value)]
      /\ \A flag \in FlagValues :
           DestinationAt(j, flag) =
             IF TakenAt(Instrs[j].type, flag)
               THEN lifter.blocks[Join(Instrs[j].operands[1].value)]
               ELSE lifter.ip

\* ------------------------------------------------------------------------
\* Operand shapes and address expressions
\* ------------------------------------------------------------------------
\* the messages with which liftMoveInstruction rejects a shape
BadOperandShape ==
  { "Source must be a register or immediate for memory destination MOV instruction",
    "Destination must be a register for memory access MOV instruction",
    "MOV instruction destination must be a register or memory access" }

IsRegisterName(t) ==
  Len(t) >= 2 /\ t[1] = "%" /\ \A k \in 2..Len(t) : t[k] \notin {"%", "+", "*", "(", ")"}

UnsignedInteger(t) == t # <<>> /\ \A k \in 1..Len(t) : t[k] \in Digits

IsInteger(t) ==
  t # <<>> /\ IF t[1] \in {"-", "+"} THEN UnsignedInteger(Tail(t))
                                      ELSE UnsignedInteger(t)

IsIndexTimesScale(t) ==
  \E q \in 1..Len(t) :
    t[q] = "*" /\ IsRegisterName(SubSeq(t, 1, q - 1))
               /\ IsInteger(SubSeq(t, q + 1, Len(t)))

\* the five address forms: %base+%index*scale, %base+integer, %base+%reg,
\* %reg, integer
IsAddressForm(addr) ==
  \/ IsRegisterName(addr)
  \/ IsInteger(addr)
  \/ \E q \in 1..Len(addr) :
       /\ addr[q] = "+"
       /\ IsRegisterName(SubSeq(addr, 1, q - 1))
       /\ \/ IsIndexTimesScale(SubSeq(addr, q + 1, Len(addr)))
          \/ IsInteger(SubSeq(addr, q + 1, Len(addr)))
          \/ IsRegisterName(SubSeq(addr, q + 1, Len(addr)))

Inside(operand) == SubSeq(operand.value, 2, Len(operand.value) - 1)

\* an operand that is what its type says: a number, or one of the address forms
WellFormed(operand) ==
  CASE operand.type = "IMMEDIATE" -> IsInteger(operand.value)
    [] operand.type = "MEMORY" -> IsAddressForm(Inside(operand))
    [] OTHER -> TRUE

IsMov(j) == Instrs[j].type = "MOV" /\ Len(Instrs[j].operands) = 2
Dst(j) == Instrs[j].operands[1]
Src(j) == Instrs[j].operands[2]

RejectedShape(j) ==
  \/ Dst(j).type = "MEMORY" /\ Src(j).type = "MEMORY"
  \/ Dst(j).type = "LABEL"
  \/ Src(j).type = "LABEL"

AcceptedShape(j) ==
  \/ Dst(j).type = "REGISTER" /\ Src(j).type \in {"REGISTER", "IMMEDIATE", "MEMORY"}
  \/ Dst(j).type = "MEMORY" /\ Src(j).type \in {"REGISTER", "IMMEDIATE"}

\* C8: a MOV of well-formed operands makes liftToLLVM return false with an
\* operand-shape message when it is memory<-memory or has a label operand, and
\* is lifted when it is reg<-reg, reg<-imm, mem<-reg, mem<-imm or reg<-mem.
C8_MovShapes ==
  \A j \in 1..Len(Instrs) :
    (Attempted(j) /\ IsMov(j) /\ WellFormed(Dst(j)) /\ WellFormed(Src(j))) =>
      /\ RejectedShape(j) => (Failed(j) /\ lifter.err \in BadOperandShape)
      /\ AcceptedShape(j) => j < i

\* C9: a MOV between a register or number and a memory operand that is none
\* of the five address forms makes liftToLLVM return false.
C9_BadAddressRejected ==
  \A j \in 1..Len(Instrs) :
    (/\ Attempted(j) /\ IsMov(j) /\ AcceptedShape(j)
     /\ WellFormed(Dst(j)) # WellFormed(Src(j))
     /\ \E k \in 1..2 : Instrs[j].operands[k].type = "MEMORY"
                        /\ ~WellFormed(Instrs[j].operands[k]))
      => Failed(j)

\* C10: liftToLLVM ends by returning true, or by returning false with a
\* non-empty error message; it never ends through an exception or an abort.
C10_ErrorsByValue ==
  /\ pc \notin {"threw", "crashed"}
  /\ pc = "liftfail" => lifter.err # ""

\* ------------------------------------------------------------------------
\* The verification step
\* ------------------------------------------------------------------------
\* the functions that have a body
Defined(f) == Module[f].blocks # <<>>

\* what llvm::verifyFunction accepts of a function, as far as the lifter can
\* break it: every block ends in its only terminator, every branch stays in
\* the function, every return has the function's return type
PassesVerification(f) ==
  /\ \A b \in BlockIdx(f) : OneTerminatorLast(f, b)
  /\ ReferencesDefined(f)
  /\ ReturnsDeclaredType(f)

\* C12: the verification step lets liftToLLVM return true only if every
\* defined function passes verification; when one does not, liftToLLVM
\* returns false and records an error message.
C12_VerificationGatesReturn ==
  [][ pc = "verify" =>
        IF \A f \in FuncIdx : Defined(f) => PassesVerification(f)
          THEN pc' = "lifted"
          ELSE pc' = "liftfail" /\ lifter'.err # "" ]_vars

\* ------------------------------------------------------------------------
\* Operand counts
\* ------------------------------------------------------------------------
\* the operand counts the instruction set gives each instruction
Arity(type) ==
  CASE type \in {"ADD", "SUB", "MUL", "DIV", "MOV", "CMP"} -> {2}
    [] type \in {"JMP", "JE", "JNE", "JL", "JG", "JLE", "JGE",
                 "CALL", "PUSH", "POP"} -> {1}
    [] type = "RET" -> {0, 1}
    [] OTHER -> Nat

BadOperandCount ==
  { "Arithmetic instruction requires at least 2 operands",
    "MOV instruction requires 2 operands",
    "CMP instruction requires 2 operands",
    "CALL instruction requires 1 operand",
    "PUSH instruction requires 1 operand",
    "POP instruction requires 1 operand",
    "Jump instruction requires 1 operand" }

\* C14: an instruction whose operand count is not the arity of its type makes
\* liftToLLVM return false with an operand-count message; no surplus operand
\* is silently ignored.
C14_WrongOperandCountRejected ==
  \A j \in 1..Len(Instrs) :
    (Attempted(j) /\ Len(Instrs[j].operands) \notin Arity(Instrs[j].type)) =>
      Failed(j) /\ lifter.err \in BadOperandCount

\* ------------------------------------------------------------------------
\* The implicit main
\* ------------------------------------------------------------------------
\* instruction j and all before it carry no label
InPrologue(j) == \A q \in 1..j : Instrs[q].label = ""

\* instruction j has been lifted and the loop went on
LiftedInstr(j) == j < i /\ pc \in {"loop", "closeout", "verify", "lifted"}

MainFuncs == {f \in FuncIdx : Module[f].name = "main"}

\* C15: once an unlabelled first instruction has been lifted, the module has
\* a function main whose entry block is named entry, and the operations of
\* every lifted instruction of the unlabelled prologue are in that block.
C15_ImplicitMainEntry ==
  (Instrs # <<>> /\ LiftedInstr(1) /\ InPrologue(1)) =>
    /\ MainFuncs # {}
    /\ \A f \in MainFuncs :
         /\ Defined(f)
         /\ Module[f].blocks[1].name = "entry"
         /\ \A l \in OpPos :
              (OpAt(l).at >= 1 /\ OpAt(l).at < i /\ InPrologue(OpAt(l).at)) =>
                (l[1] = f /\ l[2] = 1)

\* the part of C15 the code keeps: function main is opened, with a body,
\* before the first unlabelled instruction is lifted into it
ImplicitMainOpened ==
  (Instrs # <<>> /\ Attempted(1) /\ InPrologue(1)) =>
    /\ MainFuncs # {}
    /\ \A f \in MainFuncs : Defined(f) /\ Module[f].blocks[1].name = "main"

\* ------------------------------------------------------------------------
\* Close-out
\* ------------------------------------------------------------------------
LastOp(m, f, b) == m[f].blocks[b].ops[Len(m[f].blocks[b].ops)]

\* the operation of function f of module m that defines value v, if any
DefsIn(m, f, v) ==
  { op \in UNION { {m[f].blocks[b].ops[p] : p \in 1..Len(m[f].blocks[b].ops)}
                   : b \in 1..Len(m[f].blocks) } :
      v.k = "inst" /\ op.id = v.n }

EndsWithRetZero(m, f, b) ==
  /\ HasTerminator(m[f].blocks[b])
  /\ LastOp(m, f, b).kind = "ret"
  /\ LastOp(m, f, b).x = ConstV(0)

\* the block ends with the return of a value loaded from an alloca named
\* %eax of the same function
EndsWithRetOwnEax(m, f, b) ==
  /\ HasTerminator(m[f].blocks[b])
  /\ LastOp(m, f, b).kind = "ret"
  /\ \E ld \in DefsIn(m, f, LastOp(m, f, b).x) :
       /\ ld.kind = "load"
       /\ \E al \in DefsIn(m, f, ld.x) : al.kind = "alloca" /\ al.name = "%eax"

\* C17: the close-out step gives every block of a defined function that had
\* no terminator a final return: of the constant 0 in a non-entry block, of
\* the value loaded from the function's own %eax slot in an entry block; after
\* it no block of a defined function is without a terminator.
C17_CloseOutTerminatesBlocks ==
  [][ pc = "closeout" =>
        \A f \in FuncIdx : \A b \in BlockIdx(f) :
          /\ HasTerminator(lifter'.module[f].blocks[b])
          /\ ~HasTerminator(Module[f].blocks[b]) =>
               IF b = 1 THEN EndsWithRetOwnEax(lifter'.module, f, b)
                        ELSE EndsWithRetZero(lifter'.module, f, b) ]_vars

\* the part of C17 the code keeps: no block is left without a terminator,
\* and a non-entry block that had none ends with the return of 0
CloseOutLeavesNoOpenBlock ==
  [][ pc = "closeout" =>
        \A f \in FuncIdx : \A b \in BlockIdx(f) :
          /\ HasTerminator(lifter'.module[f].blocks[b])
          /\ (~HasTerminator(Module[f].blocks[b]) /\ b # 1) =>
               EndsWithRetZero(lifter'.module, f, b) ]_vars

\* ------------------------------------------------------------------------
\* Evaluating the operations of a CMP
\* ------------------------------------------------------------------------
\* the values the registers are tried with
TestValues == {IntMin, 0 - 1, 0, 1, IntMax}

FlagSlots == {"FLAG_ZF", "FLAG_LT", "FLAG_GT", "FLAG_LE", "FLAG_GE"}

\* the name of the slot a pointer value is the alloca of
SlotOf(v) == OpAt(PlaceOfId(v.n)).name

\* an evaluation state: val, the value of each instruction evaluated so far;
\* mem, the content of the slots; wr, the slots written; heap, the words of
\* memory written through computed pointers; init, the content of the words
\* not written yet
ValOf(env, v) ==
  IF v.k \in {"const", "constbool", "constptr"} THEN v.n ELSE env.val[v.n]

HeapAt(env, a) == IF a \in DOMAIN env.heap THEN env.heap[a] ELSE env.init[a]

EvalBinOp(sub, a, b) ==
  CASE sub = "add" -> Add32(a, b)
    [] sub = "sub" -> Sub32(a, b)
    [] sub = "mul" -> Mul32(a, b)
    [] sub = "sdiv" -> SDiv32(a, b)

ExecOp(env, op) ==
  CASE op.kind = "load" /\ IsAllocaValue(op.x) ->
         [env EXCEPT !.val = MapPut(@, op.id, env.mem[SlotOf(op.x)])]
    [] op.kind = "load" /\ ~IsAllocaValue(op.x) ->
         [env EXCEPT !.val = MapPut(@, op.id, HeapAt(env, ValOf(env, op.x)))]
    [] op.kind = "icmp" ->
         [env EXCEPT !.val = MapPut(@, op.id,
                        BoolInt(EvalPred(op.sub, ValOf(env, op.x), ValOf(env, op.y))))]
    [] op.kind \in {"zext", "inttoptr"} ->
         [env EXCEPT !.val = MapPut(@, op.id, ValOf(env, op.x))]
    [] op.kind = "binop" ->
         [env EXCEPT !.val = MapPut(@, op.id,
                        EvalBinOp(op.sub, ValOf(env, op.x), ValOf(env, op.y)))]
    [] op.kind = "store" /\ IsAllocaValue(op.y) ->
         [env EXCEPT !.mem = MapPut(@, SlotOf(op.y), ValOf(env, op.x)),
                     !.wr = @ \cup {SlotOf(op.y)}]
    [] op.kind = "store" /\ ~IsAllocaValue(op.y) ->
         [env EXCEPT !.heap = MapPut(@, ValOf(env, op.y), ValOf(env, op.x))]
    [] OTHER -> env

RECURSIVE ExecOps(_, _, _)
ExecOps(env, ops, k) ==
  IF k > Len(ops) THEN env ELSE ExecOps(ExecOp(env, ops[k]), ops, k + 1)

\* the operations instruction j was lifted to, in execution order (its
\* allocas are declarations at the front of the entry block)
OpsOfInstr(j) ==
  LET l == CHOOSE q \in OpPos : OpAt(q).at = j /\ OpAt(q).kind # "alloca"
      Mine(op) == op.at = j /\ op.kind # "alloca"
  IN SelectSeq(OpsOf(l[1], l[2]), Mine)

\* the slots after the operations of instruction j ran on register contents regs
After(j, regs) ==
  ExecOps([val |-> <<>>, mem |-> regs, wr |-> {}, heap |-> <<>>,
           init |-> [a \in {} |-> 0]],
          OpsOfInstr(j), 1)

IsRegImm(operand) ==
  \/ operand.type = "REGISTER"
  \/ operand.type = "IMMEDIATE" /\ stoi(operand.value).ok

\* the value of a register or immediate operand on register contents regs
OperandInt(operand, regs) ==
  IF operand.type = "REGISTER" THEN regs[Join(operand.value)]
  ELSE stoi(operand.value).v

IsCmp(j) ==
  /\ Instrs[j].type = "CMP" /\ Len(Instrs[j].operands) = 2
  /\ IsRegImm(Instrs[j].operands[1]) /\ IsRegImm(Instrs[j].operands[2])

RegisterFiles == [{"%eax", "%ebx"} -> TestValues]

FlagsAre(mem, a, b) ==
  /\ mem["FLAG_ZF"] = BoolInt(a = b)
  /\ mem["FLAG_LT"] = BoolInt(a < b)
  /\ mem["FLAG_GT"] = BoolInt(a > b)
  /\ mem["FLAG_LE"] = BoolInt(a <= b)
  /\ mem["FLAG_GE"] = BoolInt(a >= b)
  /\ mem["FLAG_ZF"] + mem["FLAG_LT"] + mem["FLAG_GT"] = 1
  /\ mem["FLAG_LE"] = BoolInt(mem["FLAG_LT"] = 1 \/ mem["FLAG_ZF"] = 1)
  /\ mem["FLAG_GE"] = BoolInt(mem["FLAG_GT"] = 1 \/ mem["FLAG_ZF"] = 1)

\* C20: the operations a CMP a, b of registers or numbers was lifted to,
\* run on any 32-bit contents of the registers, leave FLAG_ZF = (a = b),
\* FLAG_LT = (a < b), FLAG_GT = (a > b), FLAG_LE = (a <= b), FLAG_GE = (a >= b)
\* as 0 or 1, so that exactly one of ZF, LT, GT is 1, LE = LT or ZF and
\* GE = GT or ZF, and write the five flag slots and no other slot.
C20_CmpSetsFlags ==
  \A j \in 1..Len(Instrs) :
    (LiftedInstr(j) /\ IsCmp(j)) =>
      \A regs \in RegisterFiles :
        /\ After(j, regs).wr = FlagSlots
        /\ FlagsAre(After(j, regs).mem,
                    OperandInt(Instrs[j].operands[1], regs),
                    OperandInt(Instrs[j].operands[2], regs))
        /\ \A r \in DOMAIN regs : After(j, regs).mem[r] = regs[r]

\* a CMP of two different registers has been lifted
C20_Witness ==
  \E j \in 1..Len(Instrs) :
    /\ LiftedInstr(j) /\ IsCmp(j)
    /\ Instrs[j].operands[1].type = "REGISTER"
    /\ Instrs[j].operands[2].type = "REGISTER"
    /\ Instrs[j].operands[1].value # Instrs[j].operands[2].value
    /\ \E regs \in RegisterFiles : After(j, regs).mem["FLAG_LT"] = 1
    /\ \E regs \in RegisterFiles : After(j, regs).mem["FLAG_GT"] = 1

\* ------------------------------------------------------------------------
\* Reading the lowered module
\* ------------------------------------------------------------------------
Generated == pc = "generated"

\* the wasm function function f was lowered to
WasmFuncOf(f) == generator.functions[generator.functionMap[f] + 1]

\* the wasm instructions emitted for the llvm instruction id of function f
EmittedFor(f, id) ==
  LET From(w) == w.src = id
  IN SelectSeq(WasmFuncOf(f).instructions, From)

\* the number of blocks strictly between emission positions p and q
BlocksBetween(p, q) ==
  IF p < q THEN q - p - 1 ELSE IF q < p THEN p - q - 1 ELSE 0

CompareOpcodes ==
  {"I32_EQ", "I32_NE", "I32_LT_S", "I32_GT_S", "I32_LE_S", "I32_GE_S"}

\* the first comparison in the code e (0 if none): the condition ends there
RECURSIVE FirstCompare(_, _)
FirstCompare(e, k) ==
  IF k > Len(e) THEN 0
  ELSE IF e[k].opcode \in CompareOpcodes THEN k ELSE FirstCompare(e, k + 1)

\* what follows the condition, as <<opcode, operands>> pairs
AfterCondition(e) ==
  [k \in 1..(Len(e) - FirstCompare(e, 1)) |->
     <<e[FirstCompare(e, 1) + k].opcode, e[FirstCompare(e, 1) + k].operands>>]

BrIf(d) == <<"BR_IF", <<d>>>>
Invert == <<<<"I32_CONST", <<0, 0>>>>, <<"I32_EQ", <<>>>>>>

\* the conditional branches: places <<f, b, p>> in defined functions
CondBrPlaces == {l \in OpPos : OpAt(l).kind = "condbr"}

\* emission positions of a block and of a branch target
PosP(l) == l[2] - 1
PosOfTarget(v) == v.m - 1

\* the rule for one conditional branch with emitted code e
BrIfRule(e, P, T, F) ==
  /\ FirstCompare(e, 1) # 0
  /\ AfterCondition(e) =
       IF F = P + 1 THEN <<BrIf(BlocksBetween(P, T))>>
       ELSE IF T = P + 1 THEN Invert \o <<BrIf(BlocksBetween(P, F))>>
       ELSE <<BrIf(0)>>

\* C18: for a conditional branch in the block at position P with true target
\* T and false target F the lowerer emits the condition and br_if d with d
\* the number of blocks strictly between P and T when F = P + 1; the
\* condition, i32.const 0, i32.eq and br_if d with d the number of blocks
\* strictly between P and F when T = P + 1 and F # P + 1; otherwise br_if 0.
\* Targets may lie before or after P.
C18_CondBrLowering ==
  Generated =>
    \A l \in CondBrPlaces :
      BrIfRule(EmittedFor(l[1], OpAt(l).id),
               PosP(l), PosOfTarget(OpAt(l).y), PosOfTarget(OpAt(l).z))

\* the same rule with the depth counted for targets after P only, 0 for
\* targets before P
BrIfRuleForward(e, P, T, F) ==
  /\ FirstCompare(e, 1) # 0
  /\ AfterCondition(e) =
       IF F = P + 1 THEN <<BrIf(IF T > P THEN BlocksBetween(P, T) ELSE 0)>>
       ELSE IF T = P + 1
         THEN Invert \o <<BrIf(IF F > P THEN BlocksBetween(P, F) ELSE 0)>>
       ELSE <<BrIf(0)>>

CondBrLoweringForward ==
  Generated =>
    \A l \in CondBrPlaces :
      BrIfRuleForward(EmittedFor(l[1], OpAt(l).id),
                      PosP(l), PosOfTarget(OpAt(l).y), PosOfTarget(OpAt(l).z))

\* ------------------------------------------------------------------------
\* Unconditional branches
\* ------------------------------------------------------------------------
BrPlaces == {l \in OpPos : OpAt(l).kind = "br"}

\* the emitted code as <<opcode, operands>> pairs
CodeOf(e) == [k \in 1..Len(e) |-> <<e[k].opcode, e[k].operands>>]

\* C19: an unconditional branch whose target is not the block emitted next,
\* be it a later or an earlier block, is lowered to exactly one br d, d being
\* the number of blocks strictly between the branching block and the target.
C19_BrLowering ==
  Generated =>
    \A l \in BrPlaces :
      PosOfTarget(OpAt(l).x) # PosP(l) + 1 =>
        CodeOf(EmittedFor(l[1], OpAt(l).id)) =
          <<<<"BR", <<BlocksBetween(PosP(l), PosOfTarget(OpAt(l).x))>>>>>>

\* what the code does: one br for a target after the next block, no
\* instruction at all for any other target
BrLoweringForward ==
  Generated =>
    \A l \in BrPlaces :
      CodeOf(EmittedFor(l[1], OpAt(l).id)) =
        IF PosOfTarget(OpAt(l).x) > PosP(l) + 1
          THEN <<<<"BR", <<BlocksBetween(PosP(l), PosOfTarget(OpAt(l).x))>>>>>>
          ELSE <<>>

\* ------------------------------------------------------------------------
\* Unresolved targets
\* ------------------------------------------------------------------------
JumpTypes == {"JMP", "JE", "JNE", "JL", "JG", "JLE", "JGE"}

\* the instruction whose label opened the function instruction j is in (0
\* for the implicit main)
FuncStart(j) ==
  IF \E q \in opened : q <= j
    THEN CHOOSE q \in opened : q <= j /\ \A r \in opened : r <= j => r <= q
    ELSE 0

NamesLabel(j) ==
  /\ Len(Instrs[j].operands) = 1
  /\ Instrs[j].operands[1].type = "LABEL"

TargetName(j) == Join(Instrs[j].operands[1].value)

\* a jump to a label no instruction of the same function carries, or a call
\* of a label no instruction carries
Unresolved(j) ==
  \/ /\ Instrs[j].type \in JumpTypes /\ NamesLabel(j)
     /\ ~\E q \in 1..Len(Instrs) :
           Instrs[q].label = TargetName(j) /\ FuncStart(q) = FuncStart(j)
  \/ /\ Instrs[j].type = "CALL" /\ NamesLabel(j)
     /\ ~\E q \in 1..Len(Instrs) : Instrs[q].label = TargetName(j)

\* the lifter and the lowerer both returned true
Compiled == pc \in {"generated", "wrotewasm", "writefail", "done"}

\* C11: the pipeline does not succeed on an input in which a JMP/Jcc names a
\* label not defined in its function or a CALL names a label defined nowhere.
C11_UnresolvedTargetFails ==
  Compiled => \A j \in 1..Len(Instrs) : ~Unresolved(j)

\* what the successful run leaves for an undefined callee: a function
\* without body, and no call instruction in the lowered caller
BodylessCalleeCompiled ==
  /\ pc = "done"
  /\ \E l \in OpPos :
       /\ OpAt(l).kind = "call"
       /\ ~Defined(OpAt(l).x.n)
       /\ EmittedFor(l[1], OpAt(l).id) = <<>>

\* ------------------------------------------------------------------------
\* The command line
\* ------------------------------------------------------------------------
Ended == cli.status # "running"

\* C13: a run that ended with a non-zero status has written no output file;
\* when both outputs are asked for and the .wat file cannot be opened, the
\* .wasm file has not been created.
C13_NoOutputOnFailure ==
  (Ended /\ cli.status # "0") => files = {}

\* the part of C13 the code keeps: no file is written by a run that fails
\* at or before the first write
NoOutputBeforeWrites ==
  (Ended /\ cli.status # "0" /\ files # {}) =>
    /\ pc = "writefail"
    /\ stages[Len(stages)] = "writewast"
    /\ files = {Join(cli.wasmFile)}

\* ------------------------------------------------------------------------
\* C16: the exit status
\* ------------------------------------------------------------------------
\* argument k is the value of a --wasm or --wast right before it
RECURSIVE IsOptionValue(_)
IsOptionValue(k) ==
  /\ k > 1
  /\ args[k - 1] \in {optWasm, optWast}
  /\ ~IsOptionValue(k - 1)

IsFlag(k) == ~IsOptionValue(k) /\ args[k] # <<>> /\ args[k][1] = "-"
HelpAt(k) == IsFlag(k) /\ args[k] \in {optH, optHelp}
UnknownFlagAt(k) == IsFlag(k) /\ args[k] \notin {optH, optHelp, optWasm, optWast}
MissingValueAt(k) == IsFlag(k) /\ args[k] \in {optWasm, optWast} /\ k = Len(args)
ArgErrorAt(k) == UnknownFlagAt(k) \/ MissingValueAt(k)
HelpReached ==
  \E k \in 1..Len(args) : HelpAt(k) /\ \A j \in 1..(k - 1) : ~ArgErrorAt(j)
UnknownFlagReached ==
  \E k \in 1..Len(args) :
    UnknownFlagAt(k) /\ \A j \in 1..(k - 1) : ~HelpAt(j) /\ ~ArgErrorAt(j)
MissingInput ==
  /\ \A k \in 1..Len(args) : ~HelpAt(k) /\ ~ArgErrorAt(k)
  /\ \A k \in 1..Len(args) : IsOptionValue(k) \/ IsFlag(k) \/ args[k] = <<>>

\* the stages of the run that ended here
ParserFailed  == pc = "rejected"
LifterFailed  == pc \in {"liftfail", "threw", "crashed"}
LowererFailed == pc = "genfail"
AllSucceeded ==
  /\ pc = "done" /\ parser.ok /\ lifter.ok /\ generator.ok
  /\ stages = <<"parse", "lift", "lower">>
               \o (IF cli.wasmFile # <<>> THEN <<"writewasm">> ELSE <<>>)
               \o (IF cli.wastFile # <<>> THEN <<"writewast">> ELSE <<>>)
  /\ cli.wasmFile # <<>> => Join(cli.wasmFile) \in files
  /\ cli.wastFile # <<>> => Join(cli.wastFile) \in files

\* status 0 only after help or after a run in which everything succeeded
StatusZeroOnlyOnSuccess ==
  (Ended /\ cli.status = "0") => (HelpReached \/ AllSucceeded)

\* an argument error ends the run with status 1 before the parser starts
ArgumentErrorsExitOne ==
  (Ended /\ (UnknownFlagReached \/ MissingInput)) =>
    cli.status = "1" /\ stages = <<>>

\* a failed stage ends the run with status 1 and is the last stage started
FailureExitsOne(failed, started) ==
  failed => cli.status = "1" /\ stages = started

\* C16: the run ends with status 0 only if help was reached before any
\* argument error or parsing, lifting, lowering and every requested write
\* succeeded; an unknown flag, a missing input, or a failure of the parser,
\* the lifter or the lowerer ends the run with status 1 before any later
\* stage is started.
C16_ExitStatus ==
  /\ StatusZeroOnlyOnSuccess
  /\ ArgumentErrorsExitOne
  /\ FailureExitsOne(ParserFailed, <<"parse">>)
  /\ FailureExitsOne(LifterFailed, <<"parse", "lift">>)
  /\ FailureExitsOne(LowererFailed, <<"parse", "lift", "lower">>)

\* the part of C16 the code keeps: everything but the status of a lifter
\* that ends through an exception or a null dereference
ExitStatusOfReturningStages ==
  /\ StatusZeroOnlyOnSuccess
  /\ ArgumentErrorsExitOne
  /\ FailureExitsOne(ParserFailed, <<"parse">>)
  /\ FailureExitsOne(pc = "liftfail", <<"parse", "lift">>)
  /\ FailureExitsOne(LowererFailed, <<"parse", "lift", "lower">>)
  /\ pc \in {"threw", "crashed"} => cli.status = "abort" /\ stages = <<"parse", "lift">>

\* ------------------------------------------------------------------------
\* Evaluating the operations of a straight-line program
\* ------------------------------------------------------------------------
\* the operations of instructions 1..k in the entry block of the first
\* function, in execution order
OpsUpTo(k) ==
  LET Mine(op) == op.at \in 1..k /\ op.kind # "alloca"
  IN SelectSeq(OpsOf(1, 1), Mine)

\* the evaluation state after instructions 1..k ran on slot contents regs and
\* memory contents init
AfterPrefix(k, regs, init) ==
  ExecOps([val |-> <<>>, mem |-> regs, wr |-> {}, heap |-> <<>>, init |-> init],
          OpsUpTo(k), 1)

NoMemory == [a \in {} |-> 0]

\* n PUSH of a number or a register followed by n POP to registers
IsPushPop(n) ==
  /\ n >= 1 /\ Len(Instrs) = 2 * n
  /\ \A j \in 1..(2 * n) : Instrs[j].label = "" /\ Len(Instrs[j].operands) = 1
  /\ \A j \in 1..n : Instrs[j].type = "PUSH" /\ IsRegImm(Instrs[j].operands[1])
  /\ \A j \in (n + 1)..(2 * n) :
       Instrs[j].type = "POP" /\ Instrs[j].operands[1].type = "REGISTER"

\* the slot contents the stack programs are run on
StackFiles ==
  [{"%eax", "%ebx", "STACK_PTR"} -> {IntMin, 0, 4, 7}]

\* the value the j-th instruction, a PUSH, pushes
Pushed(j, regs) ==
  OperandInt(Instrs[j].operands[1], AfterPrefix(j - 1, regs, NoMemory).mem)

PushStep(j, regs) ==
  LET before == AfterPrefix(j - 1, regs, NoMemory)
      after  == AfterPrefix(j, regs, NoMemory)
  IN /\ after.mem["STACK_PTR"] = Sub32(before.mem["STACK_PTR"], 4)
     /\ after.mem["STACK_PTR"] \in DOMAIN after.heap
     /\ after.heap[after.mem["STACK_PTR"]] = Pushed(j, regs)
     /\ after.wr \ before.wr \subseteq {"STACK_PTR"}

PopStep(j, regs) ==
  LET before == AfterPrefix(j - 1, regs, NoMemory)
      after  == AfterPrefix(j, regs, NoMemory)
      r      == Join(Instrs[j].operands[1].value)
  IN /\ before.mem["STACK_PTR"] \in DOMAIN before.heap
     /\ after.mem[r] = before.heap[before.mem["STACK_PTR"]]
     /\ after.mem["STACK_PTR"] = Add32(before.mem["STACK_PTR"], 4)
     /\ after.heap = before.heap

\* C21: in the lifted code of n PUSH followed by n POP to registers, run on
\* any contents of the slots, each PUSH lowers STACK_PTR by 4 and stores its
\* value at the new STACK_PTR, each POP loads at STACK_PTR and then raises
\* it by 4, the k-th POP receives the value of the k-th last PUSH, and
\* STACK_PTR ends at the value it started with.
C21_PushPopIsLifo ==
  \A n \in 1..(MaxStack + 1) :
    (Lifted /\ IsPushPop(n)) =>
      \A regs \in StackFiles :
        /\ \A j \in 1..n : PushStep(j, regs)
        /\ \A j \in (n + 1)..(2 * n) : PopStep(j, regs)
        /\ \A k \in 1..n :
             AfterPrefix(n + k, regs, NoMemory).mem[Join(Instrs[n + k].operands[1].value)]
               = Pushed(n - k + 1, regs)
        /\ AfterPrefix(2 * n, regs, NoMemory).mem["STACK_PTR"] = regs["STACK_PTR"]

\* PUSH 1; PUSH %eax; POP %eax; POP %ebx has been lifted and leaves the old
\* %eax in %eax and 1 in %ebx
C21_Witness ==
  /\ Lifted /\ IsPushPop(2)
  /\ Instrs[1].operands[1].type = "IMMEDIATE"
  /\ Instrs[2].operands[1].type = "REGISTER"
  /\ \E regs \in StackFiles :
       /\ regs["%eax"] = 7 /\ regs["STACK_PTR"] = 4
       /\ AfterPrefix(4, regs, NoMemory).mem["%eax"] = 7
       /\ AfterPrefix(4, regs, NoMemory).mem["%ebx"] = 1
       /\ AfterPrefix(2, regs, NoMemory).mem["STACK_PTR"] = 0 - 4

\* ------------------------------------------------------------------------
\* C22: CALL
\* ------------------------------------------------------------------------
IsCallOfLabel(j) ==
  /\ Instrs[j].type = "CALL" /\ Len(Instrs[j].operands) = 1
  /\ Instrs[j].operands[1].type = "LABEL"

\* the function and block the operations of instruction j stand in
PlaceOfInstr(j) == CHOOSE q \in OpPos : OpAt(q).at = j /\ OpAt(q).kind # "alloca"

\* the alloca a pointer value is, if it is one of function f named name
IsSlotOf(v, f, name) ==
  /\ v.k = "inst"
  /\ \E l \in OpPos :
       /\ l[1] = f /\ OpAt(l).id = v.n
       /\ OpAt(l).kind = "alloca" /\ OpAt(l).name = name

\* the operations of a CALL: the call of the function named by the operand,
\* then the store of its result into the %eax slot of the calling function
CallThenStore(j) ==
  LET ops == OpsOfInstr(j)
      f   == PlaceOfInstr(j)[1]
  IN /\ Len(ops) = 2
     /\ ops[1].kind = "call" /\ ops[1].x.k = "func"
     /\ Module[ops[1].x.n].name = Join(Instrs[j].operands[1].value)
     /\ ops[2].kind = "store" /\ ops[2].x = InstV(ops[1].id)
     /\ IsSlotOf(ops[2].y, f, "%eax")
     /\ \E p \in 1..(Len(OpsOf(f, PlaceOfInstr(j)[2])) - 1) :
          /\ OpsOf(f, PlaceOfInstr(j)[2])[p] = ops[1]
          /\ OpsOf(f, PlaceOfInstr(j)[2])[p + 1] = ops[2]

\* instruction j + 1 is an operand-less RET in the block of the CALL j
RetFollows(j) ==
  /\ j + 1 <= Len(Instrs) /\ LiftedInstr(j + 1)
  /\ Instrs[j + 1].type = "RET" /\ Instrs[j + 1].operands = <<>>
  /\ Instrs[j + 1].label = ""

\* the RET loads the slot the CALL stored into and returns the loaded value
RetReturnsCallResult(j) ==
  LET call == OpsOfInstr(j)
      ret  == OpsOfInstr(j + 1)
  IN /\ Len(ret) = 2
     /\ ret[1].kind = "load" /\ ret[1].x = call[2].y
     /\ ret[2].kind = "ret" /\ ret[2].x = InstV(ret[1].id)
     /\ PlaceOfInstr(j + 1) = [PlaceOfInstr(j) EXCEPT ![3] = @ + 2]

\* C22: every lifted CALL of a label is a call of the function of that name
\* immediately followed by the store of the result into the %eax slot of
\* the calling function, and an operand-less RET right after it returns
\* the value loaded from that slot.
C22_CallStoresResultInEax ==
  \A j \in 1..Len(Instrs) :
    (LiftedInstr(j) /\ IsCallOfLabel(j)) =>
      /\ CallThenStore(j)
      /\ RetFollows(j) => RetReturnsCallResult(j)

\* main calls a function defined later in the source and returns its value
C22_Witness ==
  \E j \in 1..Len(Instrs) :
    /\ Lifted /\ IsCallOfLabel(j) /\ RetFollows(j)
    /\ Module[PlaceOfInstr(j)[1]].name = "main"
    /\ \E f \in FuncIdx :
         /\ f # PlaceOfInstr(j)[1]
         /\ Module[f].name = Join(Instrs[j].operands[1].value)
         /\ Module[f].blocks # <<>>
         /\ OpsOfInstr(j)[1].x = FuncV(f)

\* ------------------------------------------------------------------------
\* C23: MOV between a register and memory
\* ------------------------------------------------------------------------
\* the slots after the operations of instruction j ran on slot contents
\* regs and memory contents init
AfterIn(j, regs, init) ==
  ExecOps([val |-> <<>>, mem |-> regs, wr |-> {}, heap |-> <<>>, init |-> init],
          OpsOfInstr(j), 1)

\* the address a memory operand of one of the five forms stands for
AddressOf(operand, regs) ==
  CASE operand.value = tMemIndexed ->
         Add32(regs["%eax"], Mul32(regs["%ebx"], 4))
    [] operand.value = tMemOffset -> Add32(regs["%eax"], 4)
    [] operand.value = tMemRegOffset -> Add32(regs["%eax"], regs["%ebx"])
    [] operand.value = tMemReg -> regs["%eax"]
    [] operand.value = tMemAbs -> 8

IsGoodMem(operand) == operand.type = "MEMORY" /\ operand.value \in GoodMemTokens

IsMovFromMem(j) ==
  /\ Instrs[j].type = "MOV" /\ Len(Instrs[j].operands) = 2
  /\ Instrs[j].operands[1].type = "REGISTER" /\ IsGoodMem(Instrs[j].operands[2])

IsMovToMem(j) ==
  /\ Instrs[j].type = "MOV" /\ Len(Instrs[j].operands) = 2
  /\ IsGoodMem(Instrs[j].operands[1]) /\ IsRegImm(Instrs[j].operands[2])

\* the contents the registers and the memory are tried with: every word of
\* memory holds a number that is no address
MovFiles == [{"%eax", "%ebx"} -> {0, 4, 8}]
MemWords == [a \in 0..64 |-> 1000 + a]

\* MOV %r, (addr): r receives the word stored at the address
MovFromMemLoads(j) ==
  \A regs \in MovFiles :
    /\ AfterIn(j, regs, MemWords).mem[Join(Instrs[j].operands[1].value)]
         = MemWords[AddressOf(Instrs[j].operands[2], regs)]
    /\ AfterIn(j, regs, MemWords).wr = {Join(Instrs[j].operands[1].value)}
    /\ AfterIn(j, regs, MemWords).heap = <<>>

\* MOV (addr), src: the word at the address receives the value of src, and
\* no slot is written
MovToMemStores(j) ==
  \A regs \in MovFiles :
    /\ AfterIn(j, regs, MemWords).heap
         = MapPut(<<>>, AddressOf(Instrs[j].operands[1], regs),
                  OperandInt(Instrs[j].operands[2], regs))
    /\ AfterIn(j, regs, MemWords).wr = {}

\* C23: a lifted MOV %r, (addr) loads the word stored at the address into
\* slot r, which does not receive the address itself; a lifted
\* MOV (addr), src with src a register or a number stores the value of src
\* at the address and writes no register slot.
C23_MovThroughMemory ==
  \A j \in 1..Len(Instrs) :
    /\ (LiftedInstr(j) /\ IsMovFromMem(j)) => MovFromMemLoads(j)
    /\ (LiftedInstr(j) /\ IsMovToMem(j)) => MovToMemStores(j)

\* the half of C23 the code keeps: the store to memory
MovToMemoryStores ==
  \A j \in 1..Len(Instrs) :
    (LiftedInstr(j) /\ IsMovToMem(j)) => MovToMemStores(j)

\* what the code does for MOV %r, (addr): r receives the address
MovFromMemoryCopiesAddress ==
  \A j \in 1..Len(Instrs) :
    (LiftedInstr(j) /\ IsMovFromMem(j)) =>
      \A regs \in MovFiles :
        AfterIn(j, regs, MemWords).mem[Join(Instrs[j].operands[1].value)]
          = AddressOf(Instrs[j].operands[2], regs)

\* ------------------------------------------------------------------------
\* C24: arithmetic
\* ------------------------------------------------------------------------
IsArith(j) ==
  /\ Instrs[j].type \in {"ADD", "SUB", "MUL", "DIV"}
  /\ Len(Instrs[j].operands) = 2
  /\ IsRegImm(Instrs[j].operands[1]) \/ IsGoodMem(Instrs[j].operands[1])
  /\ IsRegImm(Instrs[j].operands[2])

\* the 32-bit result of the instruction type on a and b
ArithResult(type, a, b) ==
  CASE type = "ADD" -> Add32(a, b)
    [] type = "SUB" -> Sub32(a, b)
    [] type = "MUL" -> Mul32(a, b)
    [] type = "DIV" -> SDiv32(a, b)

\* a signed division has a result unless it divides by zero or overflows
HasResult(type, a, b) ==
  type = "DIV" => (b # 0 /\ ~(a = IntMin /\ b = 0 - 1))

ArithToRegister(j) ==
  LET d == Join(Instrs[j].operands[1].value)
  IN \A regs \in RegisterFiles :
       HasResult(Instrs[j].type, regs[d], OperandInt(Instrs[j].operands[2], regs)) =>
         /\ After(j, regs).mem[d]
              = ArithResult(Instrs[j].type, regs[d],
                            OperandInt(Instrs[j].operands[2], regs))
         /\ After(j, regs).wr = {d}
         /\ \A r \in DOMAIN regs \ {d} : After(j, regs).mem[r] = regs[r]

NoStoreFor(j) == \A l \in OpPos : OpAt(l).at = j => OpAt(l).kind # "store"

\* C24: a lifted ADD, SUB, MUL or DIV d, s with d a register leaves in slot d
\* the 32-bit result of (old d) op s, the first operand on the left, signed
\* division for DIV, and leaves every other slot as it was; when d is not a
\* register the instruction is accepted and stores nothing.  The lifted
\* MOV %eax, 3; MOV %ebx, 4; ADD %eax, %ebx leaves %eax = 7 and %ebx = 4.
C24_ArithmeticUpdatesDestination ==
  \A j \in 1..Len(Instrs) :
    /\ (LiftedInstr(j) /\ IsArith(j) /\ Instrs[j].operands[1].type = "REGISTER")
         => ArithToRegister(j)
    /\ (Attempted(j) /\ IsArith(j) /\ Instrs[j].operands[1].type # "REGISTER")
         => LiftedInstr(j) /\ NoStoreFor(j)
    /\ (Lifted /\ source \in ExamplePrograms) =>
         \A regs \in RegisterFiles :
           /\ AfterPrefix(3, regs, NoMemory).mem["%eax"] = 7
           /\ AfterPrefix(3, regs, NoMemory).mem["%ebx"] = 4

\* SUB %eax, %ebx has been lifted; on %eax = INT_MIN and %ebx = 1 it wraps
\* around and leaves INT_MAX in %eax
C24_Witness ==
  /\ Lifted /\ Len(Instrs) = 1 /\ IsArith(1) /\ Instrs[1].type = "SUB"
  /\ Instrs[1].operands[1].value = tEAX
  /\ Instrs[1].operands[2].value = tEBX
  /\ \E regs \in RegisterFiles :
       /\ regs["%eax"] = IntMin /\ regs["%ebx"] = 1
       /\ After(1, regs).mem["%eax"] = IntMax
       /\ After(1, regs).mem["%ebx"] = 1

\* ------------------------------------------------------------------------
\* C25: block names
\* ------------------------------------------------------------------------
CondJumpTypes == {"JE", "JNE", "JL", "JG", "JLE", "JGE"}

IsCondJump(j) == Instrs[j].type \in CondJumpTypes /\ Len(Instrs[j].operands) = 1

\* the number of conditional jumps lifted before instruction j
RECURSIVE CondJumpsBefore(_)
CondJumpsBefore(j) ==
  IF j <= 1 THEN 0
  ELSE CondJumpsBefore(j - 1) + (IF IsCondJump(j - 1) THEN 1 ELSE 0)

\* the place of the conditional branch instruction j was lifted to
CondBrPlaceOf(j) == CHOOSE l \in OpPos : OpAt(l).at = j /\ OpAt(l).kind = "condbr"

BlockOf(v) == Module[v.n].blocks[v.m]

\* the block created by the conditional jump j: the successor of its branch
\* that was asked for under the name fallthrough_<n>
FallthroughNumbered(j) ==
  \E v \in {CondBrOf(j).y, CondBrOf(j).z} :
    /\ v.k = "block" /\ v.n = CondBrPlaceOf(j)[1]
    /\ BlockOf(v).name = "fallthrough_" \o ToString(CondJumpsBefore(j))
    /\ \A q \in 1..(j - 1) :
         IsCondJump(q) =>
           \A w \in {CondBrOf(q).y, CondBrOf(q).z} : w # v

BlockNamesUnique ==
  \A f \in FuncIdx : \A b1, b2 \in BlockIdx(f) :
    b1 # b2 => Module[f].blocks[b1].uniq # Module[f].blocks[b2].uniq

RunsIntoLabel ==
  /\ pc = "loop" /\ i > 1 /\ Instrs[i].label # ""
  /\ Instrs[i - 1].type \notin {"JMP", "RET"}
  /\ lifter.ip # NullV
  /\ ~HasTerminator(Module[lifter.ip.n].blocks[lifter.ip.m])
  /\ pc' \in {"loop", "closeout"}
  /\ ~lifter'.openedNow
  /\ lifter'.ip # lifter.ip

\* the block left behind, after the step
BlockLeft == lifter'.module[lifter.ip.n].blocks[lifter.ip.m]

\* the first block of the label: where its instruction was lifted to
LabelBlock == lifter'.blocks[Instrs[i].label]

\* C26: when the instruction stream runs into a label that introduces a
\* block, the block left behind ends with a branch to the label's block, so
\* that it gets no synthesized return.
C26_FallIntoLabelBranches ==
  [][ RunsIntoLabel =>
        /\ HasTerminator(BlockLeft)
        /\ BlockLeft.ops[Len(BlockLeft.ops)].kind = "br"
        /\ BlockLeft.ops[Len(BlockLeft.ops)].x = LabelBlock ]_vars

\* what the code does: the block left behind stays without terminator, and
\* is given its return by the close-out
FallIntoLabelLeavesBlockOpen ==
  [][ RunsIntoLabel => ~HasTerminator(BlockLeft) ]_vars

\* ------------------------------------------------------------------------
\* C27: branches stay inside their function
\* ------------------------------------------------------------------------
\* the blocks a branch at place l names
TargetsOf(l) ==
  IF OpAt(l).kind = "br" THEN {OpAt(l).x}
  ELSE IF OpAt(l).kind = "condbr" THEN {OpAt(l).y, OpAt(l).z}
  ELSE {}

BranchesStayInFunction ==
  \A l \in OpPos : \A t \in TargetsOf(l) : IsBlockOf(t, l[1])

\* blocks_ holds blocks of the function being lifted only
BlockMapOfCurrentFunction ==
  \A name \in DOMAIN lifter.blocks :
    lifter.ip # NullV /\ IsBlockOf(lifter.blocks[name], lifter.ip.n)

\* C27: at every point of the lifting and in the lifted module, every br and
\* cond_br names blocks of the function the branch is in; the label-to-block
\* map holds blocks of the current function only, so that a jump to a label
\* defined in another function gets a block of its own in the jumping
\* function.
C27_BranchTargetsInOwnFunction ==
  BranchesStayInFunction /\ BlockMapOfCurrentFunction

\* a jump to L lifted in one function while a block of that name exists in
\* another function, which the jump does not use
C27_Witness ==
  /\ Lifted
  /\ \E l \in BrPlaces \cup CondBrPlaces : \E f \in FuncIdx \ {l[1]} :
       \E b \in BlockIdx(f) : \E t \in TargetsOf(l) :
         /\ Module[f].blocks[b].name = "L"
         /\ BlockOf(t).name = "L"

\* ------------------------------------------------------------------------
\* C28: the local-index map
\* ------------------------------------------------------------------------
\* localMap_ as convertFunction leaves it: the map of the function lowered
\* last, which is the last function of the wasm module
LastWasmFunc == generator.functions[Len(generator.functions)]

LocalMapInjective ==
  \A a, b \in DOMAIN generator.localMap :
    a # b => generator.localMap[a] # generator.localMap[b]

LocalIndicesDeclared ==
  \A a \in DOMAIN generator.localMap :
    generator.localMap[a] < Len(LastWasmFunc.params) + Len(LastWasmFunc.locals)

LocalAccessesMapped ==
  \A k \in 1..Len(LastWasmFunc.instructions) :
    LastWasmFunc.instructions[k].opcode \in {"GET_LOCAL", "SET_LOCAL"} =>
      \E a \in DOMAIN generator.localMap :
        generator.localMap[a] = LastWasmFunc.instructions[k].operands[1]

\* C28: in a lowered function no two values share a local index, every
\* index is below params + locals, and every local.get / local.set names an
\* index the map holds.
C28_LocalMapInjective ==
  (Generated /\ generator.functions # <<>>) =>
    LocalMapInjective /\ LocalIndicesDeclared /\ LocalAccessesMapped

\* what the code does keep: the indices are declared and every access names
\* an index of the map
LocalIndicesDeclaredAndUsed ==
  (Generated /\ generator.functions # <<>>) =>
    LocalIndicesDeclared /\ LocalAccessesMapped

\* the allocas alone are numbered apart, from 0 in the order of the blocks
AllocaLocalsDistinct ==
  (Generated /\ generator.functions # <<>>) =>
    \A a, b \in DOMAIN generator.localMap :
      (a # b /\ IsAllocaValue(InstV(a)) /\ IsAllocaValue(InstV(b)))
        => generator.localMap[a] # generator.localMap[b]

\* ------------------------------------------------------------------------
\* C29: the operand stack of the emitted code
\* ------------------------------------------------------------------------
BinaryOpcodes ==
  {"I32_ADD", "I32_SUB", "I32_MUL", "I32_DIV_S", "I32_DIV_U",
   "I32_LT_U", "I32_GT_U", "I32_LE_U", "I32_GE_U"} \cup CompareOpcodes

\* the number of operands an opcode takes from the stack; functions have no
\* parameters and return one i32
Pops(opcode) ==
  CASE opcode \in BinaryOpcodes -> 2
    [] opcode = "I32_STORE" -> 2
    [] opcode \in {"I32_LOAD", "SET_LOCAL", "BR_IF", "RETURN"} -> 1
    [] OTHER -> 0

\* the number of values it leaves there
Pushes(opcode) ==
  CASE opcode \in BinaryOpcodes -> 1
    [] opcode \in {"I32_LOAD", "I32_CONST", "GET_LOCAL", "CALL"} -> 1
    [] OTHER -> 0

\* the wasm instructions emitted for block b of function f
CodeOfBlock(f, b) ==
  LET From(w) == \E p \in 1..Len(OpsOf(f, b)) : OpsOf(f, b)[p].id = w.src
  IN SelectSeq(WasmFuncOf(f).instructions, From)

\* the code from position k on runs with d values on the stack: every opcode
\* finds its operands, a return finds exactly one value, a branch leaves
\* none behind, and none is left at the end
RECURSIVE Balanced(_, _, _)
Balanced(code, k, d) ==
  IF k > Len(code) THEN d = 0
  ELSE IF Pops(code[k].opcode) > d THEN FALSE
  ELSE IF code[k].opcode = "RETURN" THEN d = 1 /\ Balanced(code, k + 1, 0)
  ELSE IF code[k].opcode = "BR" THEN d = 0 /\ Balanced(code, k + 1, 0)
  ELSE Balanced(code, k + 1, d - Pops(code[k].opcode) + Pushes(code[k].opcode))

\* the same walk asking only that every opcode finds its operands
RECURSIVE NoUnderflow(_, _, _)
NoUnderflow(code, k, d) ==
  IF k > Len(code) THEN TRUE
  ELSE IF Pops(code[k].opcode) > d THEN FALSE
  ELSE IF code[k].opcode \in {"RETURN", "BR"} THEN NoUnderflow(code, k + 1, 0)
  ELSE NoUnderflow(code, k + 1, d - Pops(code[k].opcode) + Pushes(code[k].opcode))

DefinedFuncs == {f \in FuncIdx : Module[f].blocks # <<>>}

\* C29: in the code emitted for every block of every lowered function the
\* operand stack is balanced: every opcode finds its operands, every value
\* pushed is consumed in the block, and at each return the stack holds
\* exactly the one result.
C29_OperandStackBalanced ==
  Generated =>
    \A f \in DefinedFuncs : \A b \in BlockIdx(f) : Balanced(CodeOfBlock(f, b), 1, 0)

\* the weaker statement: no opcode runs on an empty stack
OperandsAlwaysPresent ==
  Generated =>
    \A f \in DefinedFuncs : \A b \in BlockIdx(f) : NoUnderflow(CodeOfBlock(f, b), 1, 0)

\* ------------------------------------------------------------------------
\* C30: the index of a call
\* ------------------------------------------------------------------------
CallPlaces == {l \in OpPos : OpAt(l).kind = "call"}

\* the callee of the call at place l: a function of the llvm module
CalleeOf(l) == OpAt(l).x.n

\* the zero-based positions of (func $name ...) in the text module, whose
\* functions are written in the order of wasmModule_.functions
PositionsOf(name) ==
  {p \in 0..(Len(generator.functions) - 1) : generator.functions[p + 1].name = name}

\* the call at place l is lowered to one call i, i the position of its callee
CallNamesCallee(l) ==
  /\ Len(EmittedFor(l[1], OpAt(l).id)) = 1
  /\ EmittedFor(l[1], OpAt(l).id)[1].opcode = "CALL"
  /\ PositionsOf(Module[CalleeOf(l)].name) = {EmittedFor(l[1], OpAt(l).id)[1].operands[1]}

\* C30: after one generateWasm on a fresh generator, every call operation of
\* the module is lowered to call i with i the zero-based position of the
\* callee's function in the function list of the text module, whatever the
\* order of calls and definitions.
C30_CallIndexIsCalleePosition ==
  Generated => \A l \in CallPlaces : CallNamesCallee(l)

\* the same for the calls whose callee has a body
CallIndexOfDefinedCallee ==
  Generated =>
    \A l \in CallPlaces : CalleeOf(l) \in DefinedFuncs => CallNamesCallee(l)

\* a call of a function without body is lowered to nothing
BodylessCalleeNotCalled ==
  Generated =>
    \A l \in CallPlaces :
      CalleeOf(l) \notin DefinedFuncs => EmittedFor(l[1], OpAt(l).id) = <<>>

\* calls with a body met: a forward call, a call of an earlier function, a
\* recursive call
DefinedCalleesReached ==
  /\ Generated
  /\ \E l \in CallPlaces : CalleeOf(l) \in DefinedFuncs /\ CalleeOf(l) > l[1]
  /\ \E l \in CallPlaces : CalleeOf(l) \in DefinedFuncs /\ CalleeOf(l) = l[1]

====
